---- MODULE Spec2Model ----
(***************************************************************************)
(* State machine of the CheckMK host monitor of AURENET:                   *)
(*   aurenet/monitoring/checkmk.py  CheckMKMonitor  (impl = "aurenet")     *)
(*   rgb_keyboard.py                CheckMKMonitor  (impl = "legacy")      *)
(* A poll cycle parses one response of the status source, tracks the state *)
(* transition of every entry, detects vanished and new hosts, sweeps old   *)
(* animation events and replaces the host list.                            *)
(*                                                                         *)
(* Time is counted in whole seconds.  Host names are sequences of          *)
(* characters, so that the keyword search of _get_host_priority is         *)
(* computed as the code computes it.                                       *)
(***************************************************************************)
EXTENDS Integers, Sequences, FiniteSets, TLC

VARIABLES
    impl,             \* which CheckMKMonitor class runs: "aurenet" or "legacy"
    now,              \* the wall clock, time.time()
    hosts,            \* self._hosts: the host list of the last processed poll
    previous_states,  \* self._previous_states: name -> last state
    known_hosts,      \* self._known_hosts
    supernovas,       \* self._supernovas: name -> event data
    phoenixes,        \* self._phoenixes
    warnings,         \* self._warnings
    blackholes,       \* self._blackholes
    spawns,           \* self._spawns
    celebration,      \* self._celebration: None or {"start": t}
    had_problems,     \* self._had_problems
    cycles,           \* the number of fetch cycles so far
    response,         \* the response processed by the last successful cycle
    repeated,         \* history: the last cycle processed the same response as the one before
    departed,         \* history: the names seen in some cycle and not in the last one
    celebrations,     \* history: the CELEBRATIONs started since the last response with a host that is not OK
    problem_seen,     \* history: some response so far listed a host that is not OK
    fetch_log,        \* what the last loop iteration with a fetch met and did: the
                      \* requests made, the sleeps between them, the completed calls
                      \* of _process_response, the exception raised, the errors printed
                      \* by the except clause; history: the failures the status source
                      \* had ready, the clock at the fetch's start, and whether the
                      \* iteration with a fetch before this one raised
    thread,           \* self._thread: "running" while _update_loop loops, "dead" once it is left
    trigger_files,    \* the kinds whose trigger file /tmp/aurenet_trigger_<kind>.txt exists
    stuck,            \* the kinds whose trigger file the process is not allowed to delete
    injected,         \* history: kind -> the number of times its trigger file was created
    consumed,         \* history: kind -> the number of times check_and_clear returned True for it
    ticks,            \* the number of loop iterations without fetch so far
    poll,             \* the position of the poller thread inside _process_response, None outside
    snapshot,         \* what the renderer thread read last during the running cycle, None if nothing
    hosts_lock,       \* self._hosts_lock: the thread that holds it, or "free"
    animation_lock,   \* self._animation_lock: the thread that holds it, or "free"
    renderer,         \* the position of the renderer thread inside its frame
    running,          \* self._running
    loop_pc,          \* the statement of _update_loop the poller thread is at
    iterations,       \* the number of loop iterations begun so far
    stopped,          \* history: where the loop was when stop() was called, None before
    frame,            \* the colours effect_checkmk returned last, None before the first frame
    shutdown_event,   \* ShutdownCoordinator._shutdown_event: set or not
    render,           \* the statement of effect_checkmk the renderer thread is at, None outside
    fetching,         \* the statement of _fetch_hosts the poller thread is at, None outside
    components,       \* ShutdownCoordinator._components: the registrations, in order
    stop_calls,       \* history: per call of shutdown(), the registrations it met and its stop() calls
    handlers,         \* EventBus._handlers: event type -> the subscribed handlers, in order
    publishing,       \* publisher thread -> its position inside publish(), None outside
    published,        \* history: the published events, each with the handlers subscribed to its
                      \* type when its publish() copied them and the handler calls made for it
    first_handlers,   \* history: _handlers when the first publish() began, None before
    effect_config,    \* ApplicationOrchestrator._effect_config: speed and brightness, in tenths
    config_lock,      \* ApplicationOrchestrator._lock: the thread that holds it, or "free"
    changing,         \* thread -> the change its handler is about to assign, None outside a handler
    changes,          \* the number of SPEED_CHANGED and BRIGHTNESS_CHANGED events handled so far
    seen_config,      \* history: what get_effect_config returned last, None before
    wall,             \* the clock InputHandler reads, time.time(), in tenths of a second
    pressed_keys,     \* InputHandler._pressed_keys
    esc_press_time,   \* InputHandler._esc_press_time: None or the clock at the ESC press
    rctrl_pressed,    \* InputHandler._rctrl_pressed
    key_log,          \* history: per call of handle_key, the key, the direction, the clock
                      \* and the event types the call published, in order
    unsub_log,        \* history: per returned unsubscribe() or clear(), the handlers before
                      \* and after it and the number of publishes begun before it returned
    pollers,          \* the threads later start() calls created, in order, each with the statement
                      \* of _update_loop it is at and the iterations it began; self._thread is
                      \* the last of them, or the thread of the first start()
    owner,            \* the thread that calls start() and stop(): idle or inside the join of
                      \* stop(); history: whether the last join timed out, the start()
                      \* calls that returned at once and the stop() calls
    delta_sums        \* history: per field the sum of the deltas of the events handled so far,
                      \* and whether an assignment had to clamp its value

vars == <<impl, now, hosts, previous_states, known_hosts, supernovas, phoenixes,
          warnings, blackholes, spawns, celebration, had_problems, cycles, response, repeated, departed,
          celebrations, problem_seen, fetch_log, thread, trigger_files, stuck, injected,
          consumed, ticks, poll, snapshot, hosts_lock, animation_lock, renderer,
          running, loop_pc, iterations, stopped, frame,
          shutdown_event, render, fetching, components, stop_calls, handlers,
          publishing, published, first_handlers, effect_config, config_lock, changing,
          changes, seen_config, wall, pressed_keys, esc_press_time, rctrl_pressed,
          key_log,
          unsub_log,
          pollers,
          owner,
          delta_sums>>

\* the locks of the monitor and the thread that reads it
lockvars == <<hosts_lock, animation_lock, renderer>>

\* the loop of the poller thread, statement by statement
stopvars == <<running, loop_pc, iterations, stopped>>

\* the variables of the components around the monitor
\* the variables of the shutdown coordinator
coordvars == <<shutdown_event, components, stop_calls>>
\* the event types, handlers and publishing threads the model follows
EventTypes == {"speed_changed", "brightness_changed"}
HandlerIds == {"h1", "h2"}
Publishers == {"p1", "p2"}

\* the variables of the event bus
busvars == <<handlers, publishing, published, first_handlers>>
\* the threads that deliver SPEED_CHANGED and BRIGHTNESS_CHANGED events
Writers == {"keys", "remote"}

\* the variables of the orchestrator
cfgvars == <<effect_config, config_lock, changing, changes, seen_config, delta_sums>>

\* the variables of the input handler
inputvars == <<wall, pressed_keys, esc_press_time, rctrl_pressed, key_log>>
\* the variables of the components that stand apart from the monitor, the
\* coordinator, the bus and the orchestrator
\* the threads of later start() calls and the caller of start() and stop()
restartvars == <<pollers, owner>>
latevars == <<inputvars, unsub_log, restartvars>>
othervars == <<coordvars, busvars, cfgvars, latevars, render, fetching>>
appvars == <<frame, othervars>>

\* the variables of the poll history
histvars == <<response, repeated, departed, celebrations, problem_seen>>
\* the variables of the update loop
loopvars == <<fetch_log, thread>>
\* the variables of the test triggers
trigvars == <<trigger_files, stuck, injected, consumed, ticks>>
\* the variables of the threads inside a cycle
concvars == <<poll, snapshot>>

-----------------------------------------------------------------------------
(* Bounds of the model.                                                    *)

\* the number of fetch cycles the model follows
MaxCycles == 3
\* the longest response in the specification of arbitrary responses
MaxEntries == 2
\* the number of loop iterations without fetch the model follows
MaxTicks == 1
\* the number of trigger files the model lets be created
MaxInjections == 1
MaxIterations == 3
HostLeds == 3

-----------------------------------------------------------------------------
(* Host names and states.                                                  *)

OK == 0
WARN == 1
CRIT == 2
UNKNOWN == 3
States == {OK, WARN, CRIT, UNKNOWN}

None == [none |-> TRUE]

Srv == <<"s", "r", "v", "1">>
Db == <<"D", "b">>
HostNames == {Srv, Db}

\* two hosts that no keyword of the priority table matches
Web == <<"w", "e", "b">>
TiedNames == {Db, Web}

\* the seconds that may pass between two fetch cycles: around the 5 s window
\* of aurenet, and around the 4 s to 14 s windows of rgb_keyboard.py
Delays(which) == IF which = "aurenet" THEN {1, 4} ELSE {4, 9}

UpperChars == <<"A","B","C","D","E","F","G","H","I","J","K","L","M",
                "N","O","P","Q","R","S","T","U","V","W","X","Y","Z">>
LowerChars == <<"a","b","c","d","e","f","g","h","i","j","k","l","m",
                "n","o","p","q","r","s","t","u","v","w","x","y","z">>

\* str.lower() on one character
LowerChar(c) ==
    IF \E i \in 1..Len(UpperChars) : UpperChars[i] = c
    THEN LowerChars[CHOOSE i \in 1..Len(UpperChars) : UpperChars[i] = c]
    ELSE c

\* name.lower()
Lower(name) == [i \in 1..Len(name) |-> LowerChar(name[i])]

\* kw in s
Contains(s, kw) ==
    \E i \in 1..(Len(s) - Len(kw) + 1) : SubSeq(s, i, i + Len(kw) - 1) = kw

-----------------------------------------------------------------------------
(* Dictionaries: functions whose domain is the set of keys.                *)

EmptyDict == [k \in {} |-> None]

\* an assignment that leaves the value of a key that has one: d.setdefault(k, v)
PutKeepingOld(d, k, v) == [x \in (DOMAIN d) \cup {k} |-> IF x \in DOMAIN d THEN d[x] ELSE v]

\* d[k] = v
Put(d, k, v) == [x \in (DOMAIN d) \cup {k} |-> IF x = k THEN v ELSE d[x]]

\* d.pop(k, None)
Pop(d, k) == [x \in (DOMAIN d) \ {k} |-> d[x]]

\* d.get(k, default)
Get(d, k, default) == IF k \in DOMAIN d THEN d[k] ELSE default

-----------------------------------------------------------------------------
(* PriorityClassifier.                                                     *)

_get_host_priority(name) ==
    LET n == Lower(name) IN
    IF Contains(n, <<"s","e","r","v","e","r">>) \/ Contains(n, <<"s","r","v">>) THEN 0
    ELSE IF \/ Contains(n, <<"r","o","u","t","e","r">>)
            \/ Contains(n, <<"s","w","i","t","c","h">>)
            \/ Contains(n, <<"g","a","t","e","w","a","y">>) THEN 1
    ELSE IF Contains(n, <<"n","a","s">>) \/ Contains(n, <<"s","t","o","r","a","g","e">>) THEN 2
    ELSE IF \/ Contains(n, <<"p","r","o","x","m","o","x">>)
            \/ Contains(n, <<"e","s","x","i">>)
            \/ Contains(n, <<"v","m">>) THEN 3
    ELSE IF Contains(n, <<"p","i">>) \/ Contains(n, <<"r","a","s","p","b","e","r","r","y">>) THEN 4
    ELSE IF \/ Contains(n, <<"p","c">>)
            \/ Contains(n, <<"d","e","s","k","t","o","p">>)
            \/ Contains(n, <<"w","o","r","k","s","t","a","t","i","o","n">>) THEN 5
    ELSE IF Contains(n, <<"l","a","p","t","o","p">>)
            \/ Contains(n, <<"n","o","t","e","b","o","o","k">>) THEN 6
    ELSE IF \/ Contains(n, <<"p","h","o","n","e">>)
            \/ Contains(n, <<"i","p","h","o","n","e">>)
            \/ Contains(n, <<"a","n","d","r","o","i","d">>) THEN 8
    ELSE IF Contains(n, <<"i","p","a","d">>) \/ Contains(n, <<"t","a","b","l","e","t">>) THEN 9
    ELSE 7

\* the priorities of the model's host names, computed once
PriorityOf == [n \in HostNames \cup TiedNames |-> _get_host_priority(n)]

\* insert entry h behind every entry of the sorted list whose key is <= h's
RECURSIVE InsertByPriority(_, _)
InsertByPriority(sorted, h) ==
    IF sorted = <<>> THEN <<h>>
    ELSE IF PriorityOf[h.name] < PriorityOf[Head(sorted).name]
         THEN <<h>> \o sorted
         ELSE <<Head(sorted)>> \o InsertByPriority(Tail(sorted), h)

\* a list that is left in the order of the response
SortSkipped(hs) == hs

\* sorted(hosts, key=priority): stable, ascending
RECURSIVE _sort_by_priority(_)
_sort_by_priority(hs) ==
    IF hs = <<>> THEN <<>>
    ELSE InsertByPriority(_sort_by_priority(SubSeq(hs, 1, Len(hs) - 1)), hs[Len(hs)])

-----------------------------------------------------------------------------
(* The monitor's state as one record, for the operators below.             *)

Mon ==
    [hosts |-> hosts, previous_states |-> previous_states,
     known_hosts |-> known_hosts, supernovas |-> supernovas,
     phoenixes |-> phoenixes, warnings |-> warnings, blackholes |-> blackholes,
     spawns |-> spawns, celebration |-> celebration, had_problems |-> had_problems]

\* CheckMKMonitor.__init__
InitMon ==
    [hosts |-> <<>>, previous_states |-> EmptyDict, known_hosts |-> {},
     supernovas |-> EmptyDict, phoenixes |-> EmptyDict, warnings |-> EmptyDict,
     blackholes |-> EmptyDict, spawns |-> EmptyDict, celebration |-> None,
     had_problems |-> FALSE]

-----------------------------------------------------------------------------
(* StateDiffer: the per-entry transition tracking.                         *)

\* a cycle that writes a SUPERNOVA for every host reported CRIT
IsSupernovaAnyCrit(state, prev_state) == state = 2

\* if state == 2 and prev_state != 2
IsSupernova(state, prev_state) == state = 2 /\ prev_state # 2

\* a cycle that writes a PHOENIX only on recovery from CRIT
IsPhoenixFromCritOnly(state, prev_state) == state = 0 /\ prev_state = 2

\* elif state == 0 and prev_state > 0
IsPhoenix(state, prev_state) == state = 0 /\ prev_state > 0

\* a cycle that writes a WARNING whenever a host becomes WARN
IsWarningFromAny(state, prev_state) == state = 1 /\ prev_state # 1

\* elif state == 1 and prev_state == 0
IsWarning(state, prev_state) == state = 1 /\ prev_state = 0

\* a parse loop that records the state only in the branches that write an event
TrackStateChangeOnEvent(m, name, state, t) ==
    LET prev_state == Get(m.previous_states, name, 0)
        priority == PriorityOf[name]
    IN IF IsSupernova(state, prev_state)
       THEN [m EXCEPT !.supernovas =
                        Put(@, name, [start |-> t, prev_state |-> prev_state,
                                      priority |-> priority]),
                      !.previous_states = Put(@, name, state)]
       ELSE IF IsPhoenix(state, prev_state)
       THEN [m EXCEPT !.phoenixes =
                        Put(@, name, [start |-> t, prev_state |-> prev_state,
                                      priority |-> priority]),
                      !.previous_states = Put(@, name, state)]
       ELSE IF IsWarning(state, prev_state)
       THEN [m EXCEPT !.warnings =
                        Put(@, name, [start |-> t, priority |-> priority]),
                      !.previous_states = Put(@, name, state)]
       ELSE m

\* the body of the parse loop for one entry of the response
TrackStateChange(m, name, state, t) ==
    LET prev_state == Get(m.previous_states, name, 0)
        priority == PriorityOf[name]
        m1 == IF IsSupernova(state, prev_state)
              THEN [m EXCEPT !.supernovas =
                        Put(@, name, [start |-> t, prev_state |-> prev_state,
                                      priority |-> priority])]
              ELSE IF IsPhoenix(state, prev_state)
              THEN [m EXCEPT !.phoenixes =
                        Put(@, name, [start |-> t, prev_state |-> prev_state,
                                      priority |-> priority])]
              ELSE IF IsWarning(state, prev_state)
              THEN [m EXCEPT !.warnings =
                        Put(@, name, [start |-> t, priority |-> priority])]
              ELSE m
    IN [m1 EXCEPT !.previous_states = Put(@, name, state)]

\* for h in data.get("value", []): ... over the entries in response order
RECURSIVE ParseResponse(_, _, _)
ParseResponse(m, payload, t) ==
    IF payload = <<>> THEN m
    ELSE ParseResponse(TrackStateChange(m, Head(payload).name, Head(payload).state, t),
                       Tail(payload), t)

\* {h["name"] for h in sorted_hosts}
NamesOf(hs) == {hs[i].name : i \in 1..Len(hs)}

\* the index of the first entry of the list with this name, 0 when there is none
IndexOf(hs, name) ==
    IF \E i \in 1..Len(hs) : hs[i].name = name
    THEN (CHOOSE i \in 1..Len(hs) :
              /\ hs[i].name = name
              /\ \A j \in 1..(i - 1) : hs[j].name # name) - 1
    ELSE 0

\* a detection that looks the vanished host up in a list that does not hold it
DetectDisappearedAtZero(m, current_names, t) ==
    IF m.known_hosts # {}
    THEN LET disappeared == m.known_hosts \ current_names IN
         [m EXCEPT
            !.blackholes =
                [x \in (DOMAIN @) \cup disappeared |->
                    IF x \in disappeared
                    THEN [start |-> t, key_index |-> 0, priority |-> PriorityOf[x]]
                    ELSE @[x]],
            !.previous_states = [x \in (DOMAIN @) \ disappeared |-> @[x]]]
    ELSE m

\* a detection that leaves the vanished host's entry in previous_states
DetectDisappearedKeepsState(m, current_names, t) ==
    IF m.known_hosts # {}
    THEN LET disappeared == m.known_hosts \ current_names IN
         [m EXCEPT
            !.blackholes =
                [x \in (DOMAIN @) \cup disappeared |->
                    IF x \in disappeared
                    THEN [start |-> t, key_index |-> IndexOf(m.hosts, x),
                          priority |-> PriorityOf[x]]
                    ELSE @[x]]]
    ELSE m

\* BLACKHOLE: names known and no longer reported
DetectDisappeared(m, current_names, t) ==
    IF m.known_hosts # {}
    THEN LET disappeared == m.known_hosts \ current_names IN
         [m EXCEPT
            !.blackholes =
                [x \in (DOMAIN @) \cup disappeared |->
                    IF x \in disappeared
                    THEN [start |-> t, key_index |-> IndexOf(m.hosts, x),
                          priority |-> PriorityOf[x]]
                    ELSE @[x]],
            !.previous_states = [x \in (DOMAIN @) \ disappeared |-> @[x]]]
    ELSE m

\* a detection that does not search the new host's position
DetectAppearedAtZero(m, sorted_hosts, t) ==
    IF m.known_hosts # {}
    THEN LET new_names == NamesOf(sorted_hosts) \ m.known_hosts IN
         [m EXCEPT
            !.spawns =
                [x \in (DOMAIN @) \cup new_names |->
                    IF x \in new_names
                    THEN [start |-> t, key_index |-> 0, priority |-> PriorityOf[x]]
                    ELSE @[x]]]
    ELSE m

\* a detection that also runs when no host is known
DetectAppearedAlways(m, sorted_hosts, t) ==
    LET new_names == NamesOf(sorted_hosts) \ m.known_hosts IN
    [m EXCEPT
        !.spawns =
            [x \in (DOMAIN @) \cup new_names |->
                IF x \in new_names
                THEN [start |-> t, key_index |-> IndexOf(sorted_hosts, x),
                      priority |-> PriorityOf[x]]
                ELSE @[x]]]

\* SPAWN: names reported and not known
DetectAppeared(m, sorted_hosts, t) ==
    IF m.known_hosts # {}
    THEN LET new_names == NamesOf(sorted_hosts) \ m.known_hosts IN
         [m EXCEPT
            !.spawns =
                [x \in (DOMAIN @) \cup new_names |->
                    IF x \in new_names
                    THEN [start |-> t, key_index |-> IndexOf(sorted_hosts, x),
                          priority |-> PriorityOf[x]]
                    ELSE @[x]]]
    ELSE m

-----------------------------------------------------------------------------
(* AnimationEventStore: the sweep.                                         *)

\* the window of every kind in aurenet/monitoring/checkmk.py
AurenetTTL == 5
\* the windows of rgb_keyboard.py
LegacySupernovaTTL == 14
LegacyPhoenixTTL == 6
LegacyWarningTTL == 4
LegacyBlackholeTTL == 5
LegacySpawnTTL == 4

Kinds == {"supernova", "phoenix", "warning", "blackhole", "spawn"}

TTL(which, kind) ==
    IF which = "aurenet" THEN AurenetTTL
    ELSE CASE kind = "supernova" -> LegacySupernovaTTL
           [] kind = "phoenix" -> LegacyPhoenixTTL
           [] kind = "warning" -> LegacyWarningTTL
           [] kind = "blackhole" -> LegacyBlackholeTTL
           [] kind = "spawn" -> LegacySpawnTTL

\* a sweep that keeps an event whose age is exactly the window
AliveInclusive(v, t, ttl) == t - v.start <= ttl

\* now - v["start"] < ttl
Alive(v, t, ttl) == t - v.start < ttl

\* {k: v for k, v in d.items() if now - v["start"] < ttl}
Keep(d, t, ttl) == [k \in {x \in DOMAIN d : Alive(d[x], t, ttl)} |-> d[k]]

\* Clean up old animations
Sweep(m, which, t) ==
    [m EXCEPT !.supernovas = Keep(@, t, TTL(which, "supernova")),
              !.phoenixes = Keep(@, t, TTL(which, "phoenix")),
              !.warnings = Keep(@, t, TTL(which, "warning")),
              !.blackholes = Keep(@, t, TTL(which, "blackhole")),
              !.spawns = Keep(@, t, TTL(which, "spawn"))]

-----------------------------------------------------------------------------
(* The poll cycle.                                                         *)

\* Convert to HostState objects (zone_color, a second keyword table over the
\* name that no operation reads back, is left out)
HostStates(sorted_hosts) ==
    [i \in 1..Len(sorted_hosts) |->
        [name |-> sorted_hosts[i].name, state |-> sorted_hosts[i].state,
         led_index |-> i - 1, priority |-> PriorityOf[sorted_hosts[i].name]]]

\* all(h.state == 0 for h in self._hosts)
AllOk(hs) == \A i \in 1..Len(hs) : hs[i].state = 0

\* a check that starts the CELEBRATION without reading the latch
CheckCelebrationWithoutLatch(m, t) ==
    IF m.hosts = <<>> THEN m
    ELSE LET all_ok == AllOk(m.hosts)
             m1 == IF all_ok /\ m.celebration = None
                   THEN [m EXCEPT !.celebration = [start |-> t]]
                   ELSE m
         IN IF ~all_ok
            THEN [m1 EXCEPT !.had_problems = TRUE, !.celebration = None]
            ELSE m1

\* a check that starts the CELEBRATION again while one is active
CheckCelebrationRestarting(m, t) ==
    IF m.hosts = <<>> THEN m
    ELSE LET all_ok == AllOk(m.hosts)
             m1 == IF all_ok /\ m.had_problems
                   THEN [m EXCEPT !.celebration = [start |-> t]]
                   ELSE m
         IN IF ~all_ok
            THEN [m1 EXCEPT !.had_problems = TRUE, !.celebration = None]
            ELSE m1

_check_celebration(m, t) ==
    IF m.hosts = <<>> THEN m
    ELSE LET all_ok == AllOk(m.hosts)
             m1 == IF all_ok /\ m.had_problems /\ m.celebration = None
                   THEN [m EXCEPT !.celebration = [start |-> t]]
                   ELSE m
         IN IF ~all_ok
            THEN [m1 EXCEPT !.had_problems = TRUE, !.celebration = None]
            ELSE m1

\* the block under the animation lock that detects vanished and new hosts
\* and replaces known_hosts
Detected(m, sorted_hosts, t) ==
    LET gone == DetectDisappeared(m, NamesOf(sorted_hosts), t)
        come == DetectAppeared(gone, sorted_hosts, t)
    IN [come EXCEPT !.known_hosts = NamesOf(sorted_hosts)]

\* the cycle up to the sweep: parse and track, sort, detect vanished and new
\* hosts, replace known_hosts; the same statements in both monitors
Diffed(m, payload, t) ==
    Detected(ParseResponse(m, payload, t), _sort_by_priority(payload), t)

\* aurenet/monitoring/checkmk.py: CheckMKMonitor._process_response
_process_response(m, payload, t) ==
    LET swept == Sweep(Diffed(m, payload, t), "aurenet", t)
        replaced == [swept EXCEPT !.hosts = HostStates(_sort_by_priority(payload))]
    IN _check_celebration(replaced, t)

\* rgb_keyboard.py: CheckMKMonitor._fetch_hosts, from response.json() on
_fetch_hosts(m, payload, t) ==
    LET swept == Sweep(Diffed(m, payload, t), "legacy", t)
    IN [swept EXCEPT !.hosts = _sort_by_priority(payload)]

\* the dictionary of a kind
StoreOf(m, kind) ==
    CASE kind = "supernova" -> m.supernovas
      [] kind = "phoenix" -> m.phoenixes
      [] kind = "warning" -> m.warnings
      [] kind = "blackhole" -> m.blackholes
      [] kind = "spawn" -> m.spawns

\* _get_led_index_for_host
_get_led_index_for_host(m, hostname) ==
    IF \E i \in 1..Len(m.hosts) : m.hosts[i].name = hostname
    THEN m.hosts[IndexOf(m.hosts, hostname) + 1].led_index
    ELSE 0

\* aurenet: get_animation_events, the snapshot of the store handed to the
\* renderer, as the set of the AnimationEvent objects of the returned list
\* (an object whose prev_state is None is a record without that field)
get_animation_events(m) ==
    {[type |-> "supernova", hostname |-> n, start_time |-> m.supernovas[n].start,
      led_index |-> _get_led_index_for_host(m, n),
      prev_state |-> m.supernovas[n].prev_state,
      priority |-> m.supernovas[n].priority] : n \in DOMAIN m.supernovas}
    \cup
    {[type |-> "phoenix", hostname |-> n, start_time |-> m.phoenixes[n].start,
      led_index |-> _get_led_index_for_host(m, n),
      prev_state |-> m.phoenixes[n].prev_state,
      priority |-> m.phoenixes[n].priority] : n \in DOMAIN m.phoenixes}
    \cup
    {[type |-> "warning", hostname |-> n, start_time |-> m.warnings[n].start,
      led_index |-> _get_led_index_for_host(m, n),
      priority |-> m.warnings[n].priority] : n \in DOMAIN m.warnings}
    \cup
    {[type |-> "blackhole", hostname |-> n, start_time |-> m.blackholes[n].start,
      led_index |-> m.blackholes[n].key_index,
      priority |-> m.blackholes[n].priority] : n \in DOMAIN m.blackholes}
    \cup
    {[type |-> "spawn", hostname |-> n, start_time |-> m.spawns[n].start,
      led_index |-> m.spawns[n].key_index,
      priority |-> m.spawns[n].priority] : n \in DOMAIN m.spawns}
    \cup
    (IF m.celebration # None
     THEN {[type |-> "celebration", hostname |-> <<"a", "l", "l">>,
            start_time |-> m.celebration.start, led_index |-> 0, priority |-> 0]}
     ELSE {})

-----------------------------------------------------------------------------
(* Test triggers: aurenet/infrastructure/triggers.py and                   *)
(* _check_test_triggers.  A trigger file that exists is readable.          *)

\* a check_and_clear that reports a trigger only when its file could be deleted
CheckAndClearIfDeleted(files, undeletable, name) ==
    [found |-> name \in files /\ name \notin undeletable,
     files |-> IF name \in undeletable THEN files ELSE files \ {name}]

\* TriggerFileSystem.check_and_clear: check_trigger finds the file or not;
\* clear_trigger deletes it and ignores a deletion that fails
check_and_clear(files, undeletable, name) ==
    [found |-> name \in files,
     files |-> IF name \in undeletable THEN files ELSE files \ {name}]

\* the order in which _check_test_triggers asks for the triggers
TriggerOrder == <<"supernova", "phoenix", "warning", "blackhole", "spawn">>

\* an event that carries the priority of a host of the lowest rank
TestEventOfLowRank(kind, t) ==
    CASE kind = "supernova" -> [start |-> t, prev_state |-> 0, priority |-> 9]
      [] kind = "phoenix" -> [start |-> t, prev_state |-> 2, priority |-> 9]
      [] kind = "warning" -> [start |-> t, priority |-> 9]
      [] kind = "blackhole" -> [start |-> t, key_index |-> 0, priority |-> 9]
      [] kind = "spawn" -> [start |-> t, key_index |-> 0, priority |-> 9]

\* the event a trigger of the kind writes
TestEvent(kind, t) ==
    CASE kind = "supernova" -> [start |-> t, prev_state |-> 0, priority |-> 0]
      [] kind = "phoenix" -> [start |-> t, prev_state |-> 2, priority |-> 0]
      [] kind = "warning" -> [start |-> t, priority |-> 0]
      [] kind = "blackhole" -> [start |-> t, key_index |-> 0, priority |-> 0]
      [] kind = "spawn" -> [start |-> t, key_index |-> 0, priority |-> 0]

\* self._<kind>s[test_host] = ...
WriteEvent(m, kind, name, v) ==
    CASE kind = "supernova" -> [m EXCEPT !.supernovas = Put(@, name, v)]
      [] kind = "phoenix" -> [m EXCEPT !.phoenixes = Put(@, name, v)]
      [] kind = "warning" -> [m EXCEPT !.warnings = Put(@, name, v)]
      [] kind = "blackhole" -> [m EXCEPT !.blackholes = Put(@, name, v)]
      [] kind = "spawn" -> [m EXCEPT !.spawns = Put(@, name, v)]

\* _check_test_triggers from its i-th if on; c is [mon, files, found]
RECURSIVE CheckTriggersFrom(_, _, _, _)
CheckTriggersFrom(c, undeletable, i, t) ==
    IF i > Len(TriggerOrder) THEN c
    ELSE LET kind == TriggerOrder[i]
             r == check_and_clear(c.files, undeletable, kind)
             m1 == IF r.found /\ c.mon.hosts # <<>>
                   THEN WriteEvent(c.mon, kind, c.mon.hosts[1].name, TestEvent(kind, t))
                   ELSE c.mon
         IN CheckTriggersFrom(
                [mon |-> m1, files |-> r.files,
                 found |-> IF r.found THEN c.found \cup {kind} ELSE c.found],
                undeletable, i + 1, t)

_check_test_triggers(m, files, undeletable, t) ==
    CheckTriggersFrom([mon |-> m, files |-> files, found |-> {}], undeletable, 1, t)

-----------------------------------------------------------------------------
(* The fetch with its retries: _fetch_and_update_hosts.                    *)

\* for attempt in range(3)
MaxAttempts == 3

\* a backoff that does not grow
BackoffConstant(attempt) == 1

\* time.sleep(2**attempt)
Backoff(attempt) == 2 ^ attempt

\* a test for the last attempt that no attempt of range(3) passes
IsLastAttemptNever(attempt) == attempt = 3

\* if attempt == 2
IsLastAttempt(attempt) == attempt = 2

\* the body of the for loop from this attempt on.  outcomes[attempt + 1] is
\* what the attempt meets: "RequestException" (the request or
\* raise_for_status raises it), "ok" (a response with a host collection) or
\* "garbled" (a response whose entry number `at' is not an object, so that
\* the parse loop raises AttributeError there).  r is the run so far.
RECURSIVE Attempts(_, _, _)
Attempts(r, outcomes, attempt) ==
    IF attempt >= MaxAttempts THEN r
    ELSE LET o == outcomes[attempt + 1]
             asked == [r EXCEPT !.requests = @ + 1]
         IN CASE o.kind = "ok" ->
                   [asked EXCEPT !.mon = _process_response(r.mon, o.payload, r.t),
                                 !.processed = @ + 1]
              [] o.kind = "garbled" ->
                   [asked EXCEPT
                       !.mon = ParseResponse(r.mon, SubSeq(o.payload, 1, o.at - 1), r.t),
                       !.raised = "AttributeError"]
              [] o.kind = "RequestException" ->
                   IF IsLastAttempt(attempt)
                   THEN [asked EXCEPT !.raised = "MonitoringError"]
                   ELSE Attempts([asked EXCEPT !.t = @ + Backoff(attempt),
                                               !.sleeps = Append(@, Backoff(attempt))],
                                 outcomes, attempt + 1)

_fetch_and_update_hosts(m, outcomes, t) ==
    Attempts([mon |-> m, t |-> t, requests |-> 0, sleeps |-> <<>>, processed |-> 0,
              raised |-> "none"], outcomes, 0)

\* an except clause that lets every exception pass
CaughtNothing(exc) == FALSE

\* an except clause that names MonitoringError only
CaughtMonitoringErrorOnly(exc) == exc = "MonitoringError"

\* except Exception, in _update_loop
Caught(exc) == exc \in {"MonitoringError", "AttributeError"}

\* time.sleep(5.0): back off on errors
ErrorBackoff == 5

-----------------------------------------------------------------------------
(* Responses of the status source.                                         *)

\* the order in which the status source lists the hosts it knows
ListingOrder == <<Db, Srv>>

\* the entries of the list whose names are in N, in the order of the list
RECURSIVE Listed(_, _)
Listed(N, order) ==
    IF order = <<>> THEN <<>>
    ELSE IF Head(order) \in N THEN <<Head(order)>> \o Listed(N, Tail(order))
    ELSE Listed(N, Tail(order))

\* a host collection: some of the hosts, every host id once, each with a state
HostCollections ==
    UNION {{[i \in 1..Cardinality(N) |->
                [name |-> Listed(N, ListingOrder)[i],
                 state |-> f[Listed(N, ListingOrder)[i]]]] : f \in [N -> States]} :
           N \in SUBSET HostNames}

\* the host collections whose hosts are OK or CRIT
UpDownCollections ==
    {p \in HostCollections : \A i \in 1..Len(p) : p[i].state \in {OK, CRIT}}

\* any list of (name, state) entries of at most MaxEntries entries
AnyLists ==
    UNION {[1..n -> [name : HostNames, state : States]] : n \in 0..MaxEntries}

\* the host collections over the two hosts of equal priority, every host id
\* once, in either order of listing
TiedCollections ==
    {p \in UNION {[1..n -> [name : TiedNames, state : States]] : n \in 0..2} :
        \A i, j \in 1..Len(p) : p[i].name = p[j].name => i = j}

-----------------------------------------------------------------------------
(* The state machine.                                                      *)

SetMon(m) ==
    /\ hosts' = m.hosts
    /\ previous_states' = m.previous_states
    /\ known_hosts' = m.known_hosts
    /\ supernovas' = m.supernovas
    /\ phoenixes' = m.phoenixes
    /\ warnings' = m.warnings
    /\ blackholes' = m.blackholes
    /\ spawns' = m.spawns
    /\ celebration' = m.celebration
    /\ had_problems' = m.had_problems

\* the history of a cycle that processed the payload
Record(payload) ==
    /\ response' = payload
    /\ repeated' = (cycles > 0 /\ payload = response)
    /\ departed' = (departed \cup known_hosts) \ NamesOf(payload)
    /\ celebrations' =
          IF ~AllOk(payload) THEN 0
          ELSE IF celebration' # None /\ celebration' # celebration
               THEN celebrations + 1
               ELSE celebrations
    /\ problem_seen' = (problem_seen \/ ~AllOk(payload))

Init ==
    /\ impl \in {"aurenet", "legacy"}
    /\ now = 0
    /\ hosts = InitMon.hosts
    /\ previous_states = InitMon.previous_states
    /\ known_hosts = InitMon.known_hosts
    /\ supernovas = InitMon.supernovas
    /\ phoenixes = InitMon.phoenixes
    /\ warnings = InitMon.warnings
    /\ blackholes = InitMon.blackholes
    /\ spawns = InitMon.spawns
    /\ celebration = InitMon.celebration
    /\ had_problems = InitMon.had_problems
    /\ cycles = 0
    /\ response = <<>>
    /\ repeated = FALSE
    /\ departed = {}
    /\ celebrations = 0
    /\ problem_seen = FALSE
    /\ fetch_log = [requests |-> 0, sleeps |-> <<>>, processed |-> 0, raised |-> "none",
                    printed |-> 0, failures |-> 0, started |-> 0, after_failure |-> FALSE]
    /\ thread = "running"
    /\ trigger_files = {}
    /\ stuck = {}
    /\ injected = [k \in Kinds |-> 0]
    /\ consumed = [k \in Kinds |-> 0]
    /\ ticks = 0
    /\ poll = None
    /\ snapshot = None
    /\ hosts_lock = "free"
    /\ animation_lock = "free"
    /\ renderer = "idle"
    /\ running = TRUE
    /\ loop_pc = "test"
    /\ iterations = 0
    /\ stopped = None
    /\ frame = None
    /\ shutdown_event = FALSE
    /\ render = None
    /\ fetching = None
    /\ components = <<>>
    /\ stop_calls = <<>>
    /\ handlers = [t \in EventTypes |-> <<>>]
    /\ publishing = [p \in Publishers |-> None]
    /\ published = <<>>
    /\ first_handlers = None
    /\ effect_config = [speed |-> 10, brightness |-> 10]
    /\ config_lock = "free"
    /\ changing = [w \in Writers |-> None]
    /\ changes = 0
    /\ seen_config = None
    /\ wall = 1
    /\ pressed_keys = {}
    /\ esc_press_time = None
    /\ rctrl_pressed = FALSE
    /\ key_log = <<>>
    /\ unsub_log = <<>>
    /\ pollers = <<>>
    /\ owner = [at |-> "idle", timed_out |-> FALSE, ignored |-> 0, stops |-> 0]
    /\ delta_sums = [speed |-> 0, brightness |-> 0, clamped |-> FALSE]

\* the seconds since the last reading of the clock; only differences of clock
\* readings are ever read, so the first cycle is put at time 1
Elapsed ==
    IF cycles = 0 THEN {1}
    ELSE IF fetch_log.raised # "none" THEN {ErrorBackoff}
    ELSE Delays(impl)

\* one successful fetch cycle of the aurenet monitor on a response of the set
FetchCycle(responses) ==
    /\ impl = "aurenet"
    /\ \E d \in Elapsed, payload \in responses :
        /\ cycles < MaxCycles
        /\ cycles' = cycles + 1
        /\ now' = now + d
        /\ \E m \in {_process_response(Mon, payload, now + d)} : SetMon(m)
        /\ Record(payload)
    /\ UNCHANGED <<impl, lockvars, stopvars, appvars, loopvars, trigvars, concvars>>

\* one successful fetch cycle of the legacy monitor on a response of the set
LegacyFetchCycle(responses) ==
    /\ impl = "legacy"
    /\ \E d \in Elapsed, payload \in responses :
        /\ cycles < MaxCycles
        /\ cycles' = cycles + 1
        /\ now' = now + d
        /\ \E m \in {_fetch_hosts(Mon, payload, now + d)} : SetMon(m)
        /\ Record(payload)
    /\ UNCHANGED <<impl, lockvars, stopvars, appvars, loopvars, trigvars, concvars>>

Next ==
    \/ FetchCycle(HostCollections)
    \/ LegacyFetchCycle(HostCollections)

Spec == Init /\ [][Next]_vars

NextAnyList ==
    \/ FetchCycle(AnyLists)
    \/ LegacyFetchCycle(AnyLists)

SpecAnyList == Init /\ [][NextAnyList]_vars

NextTied ==
    \/ FetchCycle(TiedCollections)
    \/ LegacyFetchCycle(TiedCollections)

SpecTied == Init /\ [][NextTied]_vars

\* state values the status source may deliver beside the four of the
\* enumeration: h.get("extensions", {}).get("state", 0) takes what is there
OddStates == {-1, 7}

\* the host collections whose states are any delivered value
AnyStateCollections ==
    UNION {{[i \in 1..Cardinality(N) |->
                [name |-> Listed(N, ListingOrder)[i],
                 state |-> f[Listed(N, ListingOrder)[i]]]] :
                    f \in [N -> States \cup OddStates]} :
           N \in SUBSET HostNames}

NextAnyState ==
    \/ FetchCycle(AnyStateCollections)
    \/ LegacyFetchCycle(AnyStateCollections)

SpecAnyState == Init /\ [][NextAnyState]_vars

\* n attempts that meet a RequestException
Failures(n) == [i \in 1..n |-> [kind |-> "RequestException"]]

\* the status source fails f times and gives the answer from then on
Then(f, answer) == Failures(f) \o [i \in 1..(MaxAttempts - f) |-> answer]

\* what the three attempts of one fetch would meet when the status source
\* answers right away
FirstTry(responses) == {Then(0, [kind |-> "ok", payload |-> p]) : p \in responses}

\* what the three attempts of one fetch would meet: failures first, then a
\* host collection, whole or with a garbled entry
Outcomes(responses) ==
    {Failures(MaxAttempts)}
    \cup {Then(f, [kind |-> "ok", payload |-> p]) :
              f \in 0..(MaxAttempts - 1), p \in responses}
    \cup UNION {{Then(f, [kind |-> "garbled", payload |-> p, at |-> k]) :
                    k \in 1..Len(p)} :
                 f \in 0..(MaxAttempts - 1), p \in responses}

\* the number of attempts that would meet a RequestException before one is answered
FailuresOf(outcomes) ==
    Cardinality({i \in 1..Len(outcomes) :
        \A j \in 1..i : outcomes[j].kind = "RequestException"})

\* the seconds between the clock readings of two loop iterations without fetch
TickDelays == {0, 1}

\* one iteration of _update_loop of the aurenet monitor in which the fetch
\* is due: the triggers are checked, the fetch runs with its retries, and an
\* exception ends the iteration in the except clause
UpdateLoop(outcome_set) ==
    /\ impl = "aurenet"
    /\ thread = "running"
    /\ poll = None
    /\ cycles < MaxCycles
    /\ \E d \in Elapsed, outcomes \in outcome_set :
        \E c \in {_check_test_triggers(Mon, trigger_files, stuck, now + d)} :
        \E r \in {_fetch_and_update_hosts(c.mon, outcomes, now + d)} :
           /\ cycles' = cycles + 1
           /\ now' = r.t
           /\ SetMon(r.mon)
           /\ IF r.processed > 0
              THEN Record(outcomes[r.requests].payload)
              ELSE UNCHANGED histvars
           /\ fetch_log' = [requests |-> r.requests, sleeps |-> r.sleeps,
                            processed |-> r.processed, raised |-> r.raised,
                            printed |-> IF r.raised # "none" /\ Caught(r.raised)
                                        THEN 1 ELSE 0,
                            failures |-> FailuresOf(outcomes),
                            started |-> now + d,
                            after_failure |-> fetch_log.raised # "none"]
           /\ thread' = IF r.raised = "none" \/ Caught(r.raised) THEN "running" ELSE "dead"
           /\ trigger_files' = c.files
           /\ consumed' = [k \in Kinds |-> consumed[k] + IF k \in c.found THEN 1 ELSE 0]
    /\ UNCHANGED <<impl, lockvars, stopvars, appvars, stuck, injected, ticks, concvars>>

\* one iteration of _update_loop in which the fetch is not due
TriggerTick ==
    /\ impl = "aurenet"
    /\ thread = "running"
    /\ poll = None
    /\ ticks < MaxTicks
    /\ \E d \in TickDelays :
        \E c \in {_check_test_triggers(Mon, trigger_files, stuck, now + d)} :
           /\ now' = now + d
           /\ SetMon(c.mon)
           /\ trigger_files' = c.files
           /\ consumed' = [k \in Kinds |-> consumed[k] + IF k \in c.found THEN 1 ELSE 0]
    /\ ticks' = ticks + 1
    /\ UNCHANGED <<impl, lockvars, stopvars, appvars, cycles, histvars, loopvars, stuck, injected, concvars>>

\* the trigger files created so far
Injections ==
    injected["supernova"] + injected["phoenix"] + injected["warning"]
        + injected["blackhole"] + injected["spawn"]

\* a developer creates the trigger file of a kind, in a way that lets the
\* monitor's process delete it or not (a file of another user in /tmp)
Inject ==
    /\ impl = "aurenet"
    /\ Injections < MaxInjections
    /\ \E kind \in Kinds \ trigger_files, deletable \in BOOLEAN :
        /\ trigger_files' = trigger_files \cup {kind}
        /\ stuck' = IF deletable THEN stuck \ {kind} ELSE stuck \cup {kind}
        /\ injected' = [injected EXCEPT ![kind] = @ + 1]
    /\ UNCHANGED <<impl, lockvars, stopvars, appvars, now, hosts, previous_states, known_hosts, supernovas, phoenixes,
                   warnings, blackholes, spawns, celebration, had_problems, cycles,
                   histvars, loopvars, consumed, ticks, concvars>>

\* the fetches of the specification of the retries
RetryOutcomes == Outcomes(UpDownCollections)

NextRetry == UpdateLoop(RetryOutcomes)

SpecRetry == Init /\ [][NextRetry]_vars

\* the fetches of the specification of the triggers
AnsweredOutcomes == FirstTry(UpDownCollections)

NextTriggers ==
    \/ Inject
    \/ TriggerTick
    \/ UpdateLoop(AnsweredOutcomes)

SpecTriggers == Init /\ [][NextTriggers]_vars

-----------------------------------------------------------------------------
(* The poller thread inside _process_response and the renderer thread.     *)
(* Each step of the poller is one block of _process_response that holds a  *)
(* lock from its first statement to its last; the renderer's calls of      *)
(* get_hosts and get_animation_events hold the same locks, so they run     *)
(* before or after such a block and never inside it.                       *)

\* a lock that lets every thread in
AcquirableAlways(lock, who) == TRUE

\* threading.RLock: a thread enters `with lock' when no other thread holds it
Acquirable(lock, who) == lock \in {"free", who}

\* get_hosts: a copy of the host list
get_hosts(m) == m.hosts

\* the fetch of a loop iteration is answered and _process_response reads the clock
BeginProcess ==
    /\ impl = "aurenet"
    /\ thread = "running"
    /\ poll = None
    /\ cycles < MaxCycles
    /\ \E d \in Elapsed, payload \in UpDownCollections :
        /\ now' = now + d
        /\ poll' = [payload |-> payload, t |-> now + d, pre |-> Mon,
                    pc |-> IF payload = <<>> THEN "detect" ELSE "track", i |-> 1]
    /\ cycles' = cycles + 1
    /\ snapshot' = None
    /\ UNCHANGED <<impl, lockvars, stopvars, appvars, hosts, previous_states, known_hosts, supernovas, phoenixes,
                   warnings, blackholes, spawns, celebration, had_problems,
                   histvars, loopvars, trigvars>>

\* one pass of the parse loop: with self._animation_lock, for entry poll.i
TrackEntry ==
    /\ poll # None
    /\ poll.pc = "track"
    /\ SetMon(TrackStateChange(Mon, poll.payload[poll.i].name,
                                poll.payload[poll.i].state, poll.t))
    /\ poll' = IF poll.i < Len(poll.payload)
               THEN [poll EXCEPT !.i = @ + 1]
               ELSE [poll EXCEPT !.pc = "detect"]
    /\ UNCHANGED <<impl, lockvars, stopvars, appvars, now, cycles, histvars, loopvars, trigvars, snapshot>>

\* with self._animation_lock: BLACKHOLE, SPAWN, known_hosts
DetectHosts ==
    /\ poll # None
    /\ poll.pc = "detect"
    /\ SetMon(Detected(Mon, _sort_by_priority(poll.payload), poll.t))
    /\ poll' = [poll EXCEPT !.pc = "sweep"]
    /\ UNCHANGED <<impl, lockvars, stopvars, appvars, now, cycles, histvars, loopvars, trigvars, snapshot>>

\* with self._animation_lock: clean up old animations
SweepEvents ==
    /\ poll # None
    /\ poll.pc = "sweep"
    /\ SetMon(Sweep(Mon, "aurenet", poll.t))
    /\ poll' = [poll EXCEPT !.pc = "replace"]
    /\ UNCHANGED <<impl, lockvars, stopvars, appvars, now, cycles, histvars, loopvars, trigvars, snapshot>>

\* with self._hosts_lock: self._hosts = new_hosts
ReplaceHosts ==
    /\ poll # None
    /\ poll.pc = "replace"
    /\ SetMon([Mon EXCEPT !.hosts = HostStates(_sort_by_priority(poll.payload))])
    /\ poll' = [poll EXCEPT !.pc = "celebrate"]
    /\ UNCHANGED <<impl, lockvars, stopvars, appvars, now, cycles, histvars, loopvars, trigvars, snapshot>>

\* self._check_celebration(), the last statement of the cycle
CheckCelebration ==
    /\ poll # None
    /\ poll.pc = "celebrate"
    /\ SetMon(_check_celebration(Mon, poll.t))
    /\ Record(poll.payload)
    /\ poll' = None
    /\ snapshot' = None
    /\ UNCHANGED <<impl, lockvars, stopvars, appvars, now, cycles, loopvars, trigvars>>

\* a read that sweeps the store before it returns
AfterReadSwept(m, t) == Sweep(m, "aurenet", t)

\* the monitor after get_hosts or get_animation_events has returned at clock
\* t: neither assigns an attribute or an entry
AfterRead(m, t) == m

\* the renderer reads the host list while a cycle runs
RendererGetHosts ==
    /\ poll # None
    /\ snapshot = None
    /\ snapshot' = [hosts |-> get_hosts(Mon), events |-> {}, complete |-> FALSE]
    /\ SetMon(AfterRead(Mon, poll.t))
    /\ UNCHANGED <<impl, lockvars, stopvars, appvars, now, cycles, histvars, loopvars, trigvars,
                   poll>>

\* the renderer reads the events for the host list it has read
RendererGetEvents ==
    /\ poll # None
    /\ snapshot # None
    /\ ~snapshot.complete
    /\ snapshot' = [snapshot EXCEPT !.events = get_animation_events(Mon),
                                    !.complete = TRUE]
    /\ SetMon(AfterRead(Mon, poll.t))
    /\ UNCHANGED <<impl, lockvars, stopvars, appvars, now, cycles, histvars, loopvars, trigvars,
                   poll>>

NextConcurrent ==
    \/ BeginProcess
    \/ TrackEntry
    \/ DetectHosts
    \/ SweepEvents
    \/ ReplaceHosts
    \/ CheckCelebration
    \/ RendererGetHosts
    \/ RendererGetEvents

SpecConcurrent == Init /\ [][NextConcurrent]_vars

-----------------------------------------------------------------------------
(* The two locks, one acquisition at a time.  The poller thread is in      *)
(* _check_celebration or _check_test_triggers, which take _hosts_lock and, *)
(* inside it, _animation_lock; the renderer thread's frame calls get_hosts *)
(* and then get_animation_events, which takes _animation_lock and, inside  *)
(* it, _hosts_lock for every SUPERNOVA, PHOENIX and WARNING.               *)

\* _process_response up to the call of _check_celebration.  Each of its blocks
\* takes _animation_lock first or _hosts_lock alone, so the poller waits here
\* without a lock in its hand; the blocks run while the renderer is outside
\* get_animation_events
ProcessBlocks ==
    /\ impl = "aurenet"
    /\ thread = "running"
    /\ poll = None
    /\ cycles < MaxCycles
    /\ Acquirable(animation_lock, "poller")
    /\ Acquirable(hosts_lock, "poller")
    /\ \E d \in Elapsed, payload \in UpDownCollections :
        \E m \in {Sweep(Diffed(Mon, payload, now + d), "aurenet", now + d)} :
           /\ now' = now + d
           /\ SetMon([m EXCEPT !.hosts = HostStates(_sort_by_priority(payload))])
           /\ poll' = [payload |-> payload, t |-> now + d, pre |-> Mon,
                       pc |-> "celebrate", i |-> 1]
    /\ cycles' = cycles + 1
    /\ UNCHANGED <<impl, stopvars, appvars, histvars, loopvars, trigvars, snapshot, lockvars>>

\* _check_celebration: with self._hosts_lock; it returns at once without hosts
CelebrationTakesHostsLock ==
    /\ poll # None
    /\ poll.pc = "celebrate"
    /\ Acquirable(hosts_lock, "poller")
    /\ UNCHANGED <<impl, stopvars, appvars, now, hosts, previous_states, known_hosts, supernovas,
                   phoenixes, warnings, blackholes, spawns, celebration, had_problems,
                   cycles, loopvars, trigvars, snapshot, animation_lock, renderer>>
    /\ IF hosts = <<>>
       THEN /\ Record(poll.payload)
            /\ poll' = None
            /\ UNCHANGED hosts_lock
       ELSE /\ poll' = [poll EXCEPT !.pc = "celebrate_hosts"]
            /\ hosts_lock' = "poller"
            /\ UNCHANGED histvars

\* _check_celebration: with self._animation_lock, to the end of the cycle
CelebrationTakesAnimationLock ==
    /\ poll # None
    /\ poll.pc = "celebrate_hosts"
    /\ Acquirable(animation_lock, "poller")
    /\ SetMon(_check_celebration(Mon, poll.t))
    /\ Record(poll.payload)
    /\ poll' = None
    /\ hosts_lock' = "free"
    /\ UNCHANGED <<impl, stopvars, appvars, now, cycles, loopvars, trigvars, snapshot,
                   animation_lock, renderer>>

\* the first trigger, in the order of _check_test_triggers, whose file exists
FirstTrigger(files) ==
    TriggerOrder[CHOOSE i \in 1..Len(TriggerOrder) :
        /\ TriggerOrder[i] \in files
        /\ \A j \in 1..(i - 1) : TriggerOrder[j] \notin files]

\* _check_test_triggers: check_and_clear finds a trigger, with self._hosts_lock
TriggerTakesHostsLock ==
    /\ impl = "aurenet"
    /\ thread = "running"
    /\ poll = None
    /\ ticks < MaxTicks
    /\ trigger_files # {}
    /\ Acquirable(hosts_lock, "poller")
    /\ \E d \in TickDelays, kind \in {FirstTrigger(trigger_files)} :
        \E r \in {check_and_clear(trigger_files, stuck, kind)} :
           /\ now' = now + d
           /\ trigger_files' = r.files
           /\ consumed' = [consumed EXCEPT ![kind] = @ + 1]
           /\ IF hosts = <<>>
              THEN /\ poll' = None
                   /\ UNCHANGED hosts_lock
              ELSE /\ poll' = [pc |-> "trigger_hosts", kind |-> kind, t |-> now + d]
                   /\ hosts_lock' = "poller"
    /\ ticks' = ticks + 1
    /\ UNCHANGED <<impl, stopvars, appvars, hosts, previous_states, known_hosts, supernovas,
                   phoenixes, warnings, blackholes, spawns, celebration, had_problems,
                   cycles, histvars, loopvars, stuck, injected, snapshot,
                   animation_lock, renderer>>

\* _check_test_triggers: with self._animation_lock, the event of the trigger
\* is written
TriggerTakesAnimationLock ==
    /\ poll # None
    /\ poll.pc = "trigger_hosts"
    /\ Acquirable(animation_lock, "poller")
    /\ SetMon(WriteEvent(Mon, poll.kind, hosts[1].name, TestEvent(poll.kind, poll.t)))
    /\ poll' = None
    /\ hosts_lock' = "free"
    /\ UNCHANGED <<impl, stopvars, appvars, now, cycles, histvars, loopvars, trigvars, snapshot,
                   animation_lock, renderer>>

\* get_animation_events calls _get_led_index_for_host, which takes _hosts_lock
LooksUpHosts(m) ==
    DOMAIN m.supernovas \cup DOMAIN m.phoenixes \cup DOMAIN m.warnings # {}

\* the renderer's frame begins: get_hosts, with self._hosts_lock
FrameGetsHosts ==
    /\ impl = "aurenet"
    /\ renderer = "idle"
    /\ Acquirable(hosts_lock, "renderer")
    /\ renderer' = "hosts_read"
    /\ UNCHANGED <<impl, stopvars, appvars, now, hosts, previous_states, known_hosts, supernovas,
                   phoenixes, warnings, blackholes, spawns, celebration, had_problems,
                   cycles, histvars, loopvars, trigvars, concvars, hosts_lock,
                   animation_lock>>

\* get_animation_events: with self._animation_lock
FrameTakesAnimationLock ==
    /\ renderer = "hosts_read"
    /\ Acquirable(animation_lock, "renderer")
    /\ animation_lock' = "renderer"
    /\ renderer' = "events"
    /\ UNCHANGED <<impl, stopvars, appvars, now, hosts, previous_states, known_hosts, supernovas,
                   phoenixes, warnings, blackholes, spawns, celebration, had_problems,
                   cycles, histvars, loopvars, trigvars, concvars, hosts_lock>>

\* get_animation_events: the events are collected, with self._hosts_lock for
\* the led index of each SUPERNOVA, PHOENIX and WARNING, and the call returns
FrameCollectsEvents ==
    /\ renderer = "events"
    /\ LooksUpHosts(Mon) => Acquirable(hosts_lock, "renderer")
    /\ animation_lock' = "free"
    /\ renderer' = "idle"
    /\ UNCHANGED <<impl, stopvars, appvars, now, hosts, previous_states, known_hosts, supernovas,
                   phoenixes, warnings, blackholes, spawns, celebration, had_problems,
                   cycles, histvars, loopvars, trigvars, concvars, hosts_lock>>

NextLocks ==
    \/ Inject
    \/ ProcessBlocks
    \/ CelebrationTakesHostsLock
    \/ CelebrationTakesAnimationLock
    \/ TriggerTakesHostsLock
    \/ TriggerTakesAnimationLock
    \/ FrameGetsHosts
    \/ FrameTakesAnimationLock
    \/ FrameCollectsEvents

SpecLocks == Init /\ [][NextLocks]_vars

-----------------------------------------------------------------------------
(* start, stop and _update_loop, statement by statement.  The monitor has  *)
(* been started: _running is True and the thread is at the loop's test.    *)

\* a loop that never reads the flag
LoopConditionAlways(flag) == TRUE

\* while self._running
LoopCondition(flag) == flag

\* the fetches of the specification of the loop: answered at once, or failed
\* three times
StopOutcomes == FirstTry(UpDownCollections) \cup {Failures(MaxAttempts)}

\* while self._running: the loop begins another iteration or is left
LoopTest ==
    /\ impl = "aurenet"
    /\ thread = "running"
    /\ loop_pc = "test"
    /\ IF LoopCondition(running)
       THEN /\ iterations < MaxIterations
            /\ iterations' = iterations + 1
            /\ loop_pc' = "triggers"
            /\ UNCHANGED thread
       ELSE /\ loop_pc' = "exited"
            /\ thread' = "dead"
            /\ UNCHANGED iterations
    /\ UNCHANGED <<impl, lockvars, appvars, now, hosts, previous_states, known_hosts,
                   supernovas, phoenixes, warnings, blackholes, spawns, celebration,
                   had_problems, cycles, histvars, fetch_log, trigvars, concvars,
                   running, stopped>>

\* self._check_test_triggers(), the clock is read and compared with
\* last_fetch; without a fetch the iteration ends with time.sleep(0.5)
LoopTriggers ==
    /\ loop_pc = "triggers"
    /\ \E due \in (IF cycles = 0 THEN {TRUE} ELSE BOOLEAN) :
        \E d \in (IF due THEN Elapsed ELSE TickDelays) :
        \E c \in {_check_test_triggers(Mon, trigger_files, stuck, now + d)} :
           /\ now' = now + d
           /\ SetMon(c.mon)
           /\ trigger_files' = c.files
           /\ consumed' = [k \in Kinds |-> consumed[k] + IF k \in c.found THEN 1 ELSE 0]
           /\ loop_pc' = IF due THEN "fetch" ELSE "test"
           /\ ticks' = IF due THEN ticks ELSE ticks + 1
    /\ UNCHANGED <<impl, lockvars, appvars, cycles, histvars, loopvars, stuck, injected,
                   concvars, running, iterations, stopped>>

\* self._fetch_and_update_hosts() and time.sleep(0.5), or the except clause
\* with time.sleep(5.0)
LoopFetchOf(outcome_set) ==
    /\ loop_pc = "fetch"
    /\ \E outcomes \in outcome_set :
        \E r \in {_fetch_and_update_hosts(Mon, outcomes, now)} :
           /\ cycles' = cycles + 1
           /\ now' = r.t
           /\ SetMon(r.mon)
           /\ IF r.processed > 0
              THEN Record(outcomes[r.requests].payload)
              ELSE UNCHANGED histvars
           /\ fetch_log' = [requests |-> r.requests, sleeps |-> r.sleeps,
                            processed |-> r.processed, raised |-> r.raised,
                            printed |-> IF r.raised # "none" /\ Caught(r.raised)
                                        THEN 1 ELSE 0,
                            failures |-> FailuresOf(outcomes),
                            started |-> now,
                            after_failure |-> fetch_log.raised # "none"]
           /\ thread' = IF r.raised = "none" \/ Caught(r.raised) THEN "running" ELSE "dead"
           /\ loop_pc' = IF r.raised = "none" \/ Caught(r.raised) THEN "test" ELSE "exited"
    /\ UNCHANGED <<impl, lockvars, appvars, trigvars, concvars, running, iterations,
                   stopped>>

LoopFetch == LoopFetchOf(StopOutcomes)

\* stop() on a running monitor, called by its owner or by __exit__:
\* self._running = False; the join waits for the thread for at most 5 s
Stop ==
    /\ impl = "aurenet"
    /\ running
    /\ running' = FALSE
    /\ stopped' = [iteration |-> iterations, at |-> loop_pc]
    /\ UNCHANGED <<impl, lockvars, appvars, now, hosts, previous_states, known_hosts,
                   supernovas, phoenixes, warnings, blackholes, spawns, celebration,
                   had_problems, cycles, histvars, loopvars, trigvars, concvars,
                   loop_pc, iterations>>

NextStop ==
    \/ LoopTest
    \/ LoopTriggers
    \/ LoopFetch
    \/ Stop

SpecStop == Init /\ [][NextStop]_vars

-----------------------------------------------------------------------------
(* The renderer of rgb_keyboard.py: EffectEngine.effect_checkmk.  Ages and *)
(* frame times are counted in tenths of a second, the brightness in tenths, *)
(* a colour is <<r, g, b>>.  Of host_leds the first HostLeds cells are kept. *)
(* A cell of the frame holds the colour the code computes before any pulse, *)
(* flicker or random factor (pulsed tells whether one applies), the branch  *)
(* that painted it, and the state whose colour a steady cell shows (-1 for  *)
(* a cell inside an animation).                                             *)

\* max(0.0, min(1.0, factor)) for the factor num/den
ClampFactor(num, den) == IF num < 0 THEN 0 ELSE IF num > den THEN den ELSE num

\* int() of the float sum of two products whose exact value is n/den: the
\* integer part, or, when the exact value is an integer that the rounded
\* float sum falls just short of, the integer below
CutToInt(n, den, differ, short) ==
    IF short /\ differ /\ n > 0 /\ n % den = 0 THEN (n \div den) - 1 ELSE n \div den

\* a blend with the two colours exchanged
BlendExchanged(c1, c2, num, den, short) ==
    [i \in 1..3 |->
        CutToInt(c2[i] * (den - ClampFactor(num, den)) + c1[i] * ClampFactor(num, den),
                 den, c1[i] # c2[i], short)]

\* blend_colors: int(c1 * (1 - factor) + c2 * factor) per channel; short
\* tells whether the float sums of this call fall short
blend_colors(c1, c2, num, den, short) ==
    [i \in 1..3 |->
        CutToInt(c1[i] * (den - ClampFactor(num, den)) + c2[i] * ClampFactor(num, den),
                 den, c1[i] # c2[i], short)]

\* apply_brightness: int(channel * brightness); the brightness levels kept are
\* 0.5 and 1.0, whose products are exact
apply_brightness(color, brightness) == [i \in 1..3 |-> (color[i] * brightness) \div 10]

\* ColorTheme.get_status_color with the default theme
get_status_color(state) ==
    CASE state = 0 -> <<46, 204, 113>>
      [] state = 1 -> <<241, 196, 15>>
      [] state = 2 -> <<231, 76, 60>>
      [] OTHER -> <<155, 89, 182>>

\* the colour of the host before the SUPERNOVA
PrevColor(prev_state) ==
    CASE prev_state = 0 -> <<0, 180, 50>>
      [] prev_state = 1 -> <<255, 180, 0>>
      [] OTHER -> <<150, 50, 200>>

Blue == <<50, 50, 255>>
White == <<255, 255, 255>>
Red == <<255, 0, 0>>

\* the colour of the problem the PHOENIX recovers from
ProblemColor(prev_state) == IF prev_state = 2 THEN Red ELSE <<255, 180, 0>>

\* the colour a SPAWN settles on
FinalColor(final_state) ==
    CASE final_state = 0 -> <<0, 255, 0>>
      [] final_state = 1 -> <<255, 180, 0>>
      [] OTHER -> Red

\* the ages below which the branches of the if/elif chain of a kind apply,
\* in the order of the chain
PhaseEnds(kind) ==
    CASE kind = "supernova" -> <<40, 55, 90, 95, 100, 125>>
      [] kind = "phoenix" -> <<5, 20, 40, 55>>
      [] kind = "warning" -> <<3, 18, 35>>
      [] kind = "blackhole" -> <<10, 25, 35, 50>>
      [] kind = "spawn" -> <<5, 20, 35>>

\* branch i of the chain is the one taken for the age
PhaseApplies(kind, i, age) ==
    /\ age < PhaseEnds(kind)[i]
    /\ \A j \in 1..(i - 1) : ~(age < PhaseEnds(kind)[j])

\* the branch taken, 0 for the else branch and for a chain left without one
PhaseOf(kind, age) ==
    IF \E i \in DOMAIN PhaseEnds(kind) : PhaseApplies(kind, i, age)
    THEN CHOOSE i \in DOMAIN PhaseEnds(kind) : PhaseApplies(kind, i, age)
    ELSE 0

\* the branch writes colors[led]
PaintsOwn(kind, phase) ==
    CASE kind \in {"supernova", "phoenix", "warning"} -> TRUE
      [] kind = "blackhole" -> phase \in {1, 2, 3}
      [] kind = "spawn" -> phase \in {1, 2, 3}

\* the branch has a loop that writes colors[other_led]
Spreads(kind, phase) ==
    CASE kind = "supernova" -> phase \in {5, 6}
      [] kind = "phoenix" -> phase \in {2, 3, 4}
      [] kind = "warning" -> phase \in {2, 3}
      [] kind = "blackhole" -> phase \in {2, 3, 4}
      [] kind = "spawn" -> phase \in {1, 2, 3}

\* age = now - event['start']
Age(ev, ft) == ft - 10 * ev.start

\* a cell of the frame
Cell(by, phase, rgb, pulsed, shows) ==
    [by |-> by, phase |-> phase, rgb |-> rgb, pulsed |-> pulsed, shows |-> shows]

\* the first loop: a host without SUPERNOVA gets the theme's colour of its
\* state, a host with one keeps the background, a cell without host is dark
NormalCells(m) ==
    [c \in 1..HostLeds |->
        IF c > Len(m.hosts) THEN Cell("unused", 0, <<2, 2, 2>>, FALSE, -1)
        ELSE IF m.hosts[c].name \in DOMAIN m.supernovas
        THEN Cell("background", 0, <<5, 5, 5>>, FALSE, -1)
        ELSE Cell("state", 0, get_status_color(m.hosts[c].state),
                  m.hosts[c].state # 0, m.hosts[c].state)]

\* host_to_led: the cell of the host, 0 for a host that has none
CellOf(m, name) ==
    IF \E c \in 1..HostLeds : c <= Len(m.hosts) /\ m.hosts[c].name = name
    THEN CHOOSE c \in 1..HostLeds :
            /\ c <= Len(m.hosts)
            /\ m.hosts[c].name = name
            /\ \A d \in (c + 1)..HostLeds : ~(d <= Len(m.hosts) /\ m.hosts[d].name = name)
    ELSE 0

\* the cell an event of the kind is drawn at, 0 when the loop skips the event
TargetCell(m, kind, name) ==
    IF kind \in {"supernova", "phoenix", "warning"} THEN CellOf(m, name)
    ELSE IF StoreOf(m, kind)[name].key_index >= HostLeds THEN 0
    ELSE StoreOf(m, kind)[name].key_index + 1

\* final_state: the state of the spawned host in the host list, 0 without it
FinalState(m, name) ==
    IF CellOf(m, name) = 0 /\ ~(\E i \in 1..Len(m.hosts) : m.hosts[i].name = name)
    THEN 0
    ELSE LET i == CHOOSE j \in 1..Len(m.hosts) :
                     /\ m.hosts[j].name = name
                     /\ \A k \in 1..(j - 1) : m.hosts[k].name # name
         IN m.hosts[i].state

\* colors[led] as the branch of the SUPERNOVA chain writes it
SupernovaCell(ev, phase, age, b, short) ==
    CASE phase = 1 -> Cell("supernova", 1, PrevColor(ev.prev_state), TRUE, -1)
      [] phase = 2 ->
           Cell("supernova", 2,
                apply_brightness(blend_colors(PrevColor(ev.prev_state), Blue, age - 40, 15,
                                              short), b),
                FALSE, -1)
      [] phase = 3 -> Cell("supernova", 3, Blue, TRUE, -1)
      [] phase = 4 -> Cell("supernova", 4, apply_brightness(White, b), FALSE, -1)
      [] phase = 5 ->
           Cell("supernova", 5,
                apply_brightness(blend_colors(White, Red, age - 95, 5, short), b), FALSE, -1)
      [] phase = 6 -> Cell("supernova", 6, Red, TRUE, -1)
      [] OTHER -> Cell("supernova", 0, Red, TRUE, 2)

PhoenixCell(ev, phase) ==
    CASE phase \in {1, 2} -> Cell("phoenix", phase, ProblemColor(ev.prev_state), TRUE, -1)
      [] phase = 3 -> Cell("phoenix", 3, <<50, 255, 80>>, TRUE, -1)
      [] phase = 4 -> Cell("phoenix", 4, <<0, 200, 60>>, TRUE, -1)
      [] OTHER -> Cell("phoenix", 0, <<0, 180, 50>>, TRUE, 0)

WarningCell(phase) ==
    CASE phase \in {1, 2} -> Cell("warning", phase, <<255, 200, 0>>, TRUE, -1)
      [] phase = 3 -> Cell("warning", 3, <<255, 180, 0>>, TRUE, -1)
      [] OTHER -> Cell("warning", 0, <<255, 180, 0>>, TRUE, 1)

BlackholeCell(phase) ==
    IF phase = 1 THEN Cell("blackhole", 1, <<100, 0, 150>>, TRUE, -1)
    ELSE Cell("blackhole", phase, <<0, 0, 0>>, FALSE, -1)

SpawnCell(phase, final_state) ==
    IF phase = 1 THEN Cell("spawn", 1, White, TRUE, -1)
    ELSE Cell("spawn", phase, FinalColor(final_state), TRUE, -1)

OwnCell(m, kind, name, ft, b, short) ==
    LET ev == StoreOf(m, kind)[name]
        age == Age(ev, ft)
        phase == PhaseOf(kind, age)
    IN CASE kind = "supernova" -> SupernovaCell(ev, phase, age, b, short)
         [] kind = "phoenix" -> PhoenixCell(ev, phase)
         [] kind = "warning" -> WarningCell(phase)
         [] kind = "blackhole" -> BlackholeCell(phase)
         [] kind = "spawn" -> SpawnCell(phase, FinalState(m, name))

\* the events of the kind that write the cell in this frame
Painters(m, kind, c, ft) ==
    {n \in DOMAIN StoreOf(m, kind) :
        /\ TargetCell(m, kind, n) = c
        /\ PaintsOwn(kind, PhaseOf(kind, Age(StoreOf(m, kind)[n], ft)))}

\* the loop over the events of a kind; of two events drawn at one cell the
\* one that started last is taken to be drawn last
ApplyKind(cells, m, kind, ft, b, short) ==
    [c \in 1..HostLeds |->
        IF Painters(m, kind, c, ft) = {} THEN cells[c]
        ELSE OwnCell(m, kind,
                     CHOOSE n \in Painters(m, kind, c, ft) :
                        \A o \in Painters(m, kind, c, ft) :
                           StoreOf(m, kind)[o].start <= StoreOf(m, kind)[n].start,
                     ft, b, short)]

\* the order of the loops over the kinds
RenderOrder == <<"supernova", "phoenix", "warning", "blackhole", "spawn">>

RECURSIVE ApplyKindsFrom(_, _, _, _, _, _)
ApplyKindsFrom(cells, m, i, ft, b, short) ==
    IF i > Len(RenderOrder) THEN cells
    ELSE ApplyKindsFrom(ApplyKind(cells, m, RenderOrder[i], ft, b, short), m, i + 1, ft, b,
                        short)

\* the events whose branch runs a loop over the other cells in this frame
Spreading(m, ft) ==
    {<<kind, n>> \in Kinds \X (HostNames \cup TiedNames) :
        /\ n \in DOMAIN StoreOf(m, kind)
        /\ TargetCell(m, kind, n) # 0
        /\ Spreads(kind, PhaseOf(kind, Age(StoreOf(m, kind)[n], ft)))}

\* the ESC key: the overall status
EscShows(m) ==
    IF \E i \in 1..Len(m.hosts) : m.hosts[i].state = 2 THEN 2
    ELSE IF \E i \in 1..Len(m.hosts) : m.hosts[i].state > 0 THEN 1
    ELSE 0

\* the colour the loop over the other cells of a branch blends into them
SpreadColor(kind, phase, final_state) ==
    CASE kind = "supernova" -> IF phase = 5 THEN White ELSE <<200, 100, 255>>
      [] kind = "phoenix" ->
           CASE phase = 2 -> <<80, 40, 20>>
             [] phase = 3 -> <<100, 255, 100>>
             [] OTHER -> <<50, 255, 100>>
      [] kind = "warning" -> IF phase = 2 THEN <<255, 120, 0>> ELSE <<255, 200, 50>>
      [] kind = "blackhole" ->
           CASE phase = 2 -> <<0, 0, 0>>
             [] phase = 3 -> <<60, 0, 100>>
             [] OTHER -> <<0, 200, 255>>
      [] kind = "spawn" ->
           CASE phase = 1 -> <<255, 255, 200>>
             [] phase = 2 -> <<200, 255, 200>>
             [] OTHER -> FinalColor(final_state)

\* the colour of the ESC key
EscColor(shows) ==
    CASE shows = 2 -> Red
      [] shows = 1 -> <<255, 150, 0>>
      [] OTHER -> <<0, 255, 0>>

\* colors[led] after a write: the colour, the writer, whether the writer
\* assigned the cell ("own") or blended into it ("spread"), the writer's
\* colour, what the cell held before the write as far as the write read it,
\* and what the write gives on the colours of the first loop
Layer(rgb, by, how, colour, under, alone) ==
    [rgb |-> rgb, by |-> by, how |-> how, colour |-> colour, under |-> under, alone |-> alone]

\* colors after the first loop; cell 0 is the ESC key
BaseLayers(m) ==
    [c \in 0..HostLeds |->
        IF c = 0 THEN Layer(<<5, 5, 5>>, "background", "base", <<5, 5, 5>>, "none", <<5, 5, 5>>)
        ELSE LET cell == NormalCells(m)[c]
             IN Layer(cell.rgb, cell.by, "base", cell.rgb, "none", cell.rgb)]

\* current = colors[other_led]; colors[other_led] = apply_brightness(
\* blend_colors(current, colour, intensity), brightness); the intensity, a
\* function of the distance in the layout, is taken at one half
SpreadOnto(current, colour, b, short) ==
    apply_brightness(blend_colors(current, colour, 1, 2, short), b)

\* a body of the loop that leaves a cell alone once an event has written it
PaintEventUnderneath(layers, m, kind, n, ft, b, short, reach) ==
    LET phase == PhaseOf(kind, Age(StoreOf(m, kind)[n], ft))
        own == TargetCell(m, kind, n)
    IN IF own = 0 THEN layers
       ELSE [c \in 0..HostLeds |->
               IF c = own /\ PaintsOwn(kind, phase) /\ layers[c].how = "base"
               THEN LET rgb == OwnCell(m, kind, n, ft, b, short).rgb
                    IN Layer(rgb, kind, "own", rgb, "none", rgb)
               ELSE layers[c]]

\* the body of the loop over the events of a kind, for one event: the branch
\* assigns colors[led] and its loop over the other cells blends its colour
\* into those in reach
PaintEvent(layers, m, kind, n, ft, b, short, reach) ==
    LET phase == PhaseOf(kind, Age(StoreOf(m, kind)[n], ft))
        own == TargetCell(m, kind, n)
        colour == SpreadColor(kind, phase, FinalState(m, n))
    IN IF own = 0 THEN layers
       ELSE [c \in 0..HostLeds |->
               IF c = own
               THEN IF PaintsOwn(kind, phase)
                    THEN LET rgb == OwnCell(m, kind, n, ft, b, short).rgb
                         IN Layer(rgb, kind, "own", rgb, "none", rgb)
                    ELSE layers[c]
               ELSE IF reach /\ Spreads(kind, phase)
                    THEN LET current == layers[c]
                         IN Layer(SpreadOnto(current.rgb, colour, b, short), kind, "spread",
                                  colour, current.by,
                                  SpreadOnto(BaseLayers(m)[c].rgb, colour, b, short))
                    ELSE layers[c]]

\* the loop over the events of a kind, the event that started first first
RECURSIVE PaintKind(_, _, _, _, _, _, _, _)
PaintKind(layers, m, kind, names, ft, b, short, reach) ==
    IF names = {} THEN layers
    ELSE LET n == CHOOSE x \in names :
                     \A o \in names : StoreOf(m, kind)[x].start <= StoreOf(m, kind)[o].start
         IN PaintKind(PaintEvent(layers, m, kind, n, ft, b, short, reach), m, kind,
                      names \ {n}, ft, b, short, reach)

RECURSIVE PaintKindsFrom(_, _, _, _, _, _, _)
PaintKindsFrom(layers, m, i, ft, b, short, reach) ==
    IF i > Len(RenderOrder) THEN layers
    ELSE PaintKindsFrom(PaintKind(layers, m, RenderOrder[i], DOMAIN StoreOf(m, RenderOrder[i]),
                                  ft, b, short, reach),
                        m, i + 1, ft, b, short, reach)

\* colors as effect_checkmk returns them: the first loop, the five loops over
\* the events, the ESC key
Layers(m, ft, b, short, reach) ==
    [PaintKindsFrom(BaseLayers(m), m, 1, ft, b, short, reach) EXCEPT
        ![0] = Layer(EscColor(EscShows(m)), "esc", "own", EscColor(EscShows(m)), "none",
                     EscColor(EscShows(m)))]

\* a SUPERNOVA of the frame is in a branch that calls blend_colors for its cell
Blending(m, ft) ==
    \E n \in DOMAIN m.supernovas :
        /\ TargetCell(m, "supernova", n) # 0
        /\ PhaseOf("supernova", Age(m.supernovas[n], ft)) \in {2, 5}

\* EffectEngine.effect_checkmk at frame time ft with brightness b; reach:
\* the other cells are within the radius of the events that spread
effect_checkmk(m, ft, b, short, reach) ==
    IF m.hosts = <<>>
    THEN [pattern |-> "breathing", at |-> ft, brightness |-> b, cells |-> <<>>,
          spread |-> {}, esc |-> -1, reach |-> FALSE, layers |-> <<>>]
    ELSE [pattern |-> "checkmk", at |-> ft, brightness |-> b,
          cells |-> ApplyKindsFrom(NormalCells(m), m, 1, ft, b, short),
          spread |-> Spreading(m, ft), esc |-> EscShows(m),
          reach |-> reach, layers |-> Layers(m, ft, b, short, reach)]

\* the tenths of a second between the last poll and the frame; the next
\* poll is 30 s away from the last unless update_interval is set lower
RenderWaits == {0, 3, 6, 18, 35, 130}

\* Config.brightness, in tenths
BrightnessLevels == {5, 10}

\* one frame of the main loop with the checkmk effect; the polls are
\* followed up to the frame that is looked at
RenderFrame ==
    /\ impl = "legacy"
    /\ frame = None
    /\ \E w \in RenderWaits, b \in BrightnessLevels :
        \E reach \in IF Spreading(Mon, 10 * now + w) = {} THEN {FALSE} ELSE BOOLEAN :
            \E short \in IF Blending(Mon, 10 * now + w) \/ reach THEN BOOLEAN ELSE {FALSE} :
                frame' = effect_checkmk(Mon, 10 * now + w, b, short, reach)
    /\ UNCHANGED <<impl, lockvars, stopvars, othervars, now, hosts, previous_states,
                   known_hosts, supernovas, phoenixes, warnings, blackholes, spawns,
                   celebration, had_problems, cycles, histvars, loopvars, trigvars,
                   concvars>>

NextRender ==
    \/ frame = None /\ LegacyFetchCycle(HostCollections)
    \/ RenderFrame

SpecRender == Init /\ [][NextRender]_vars

-----------------------------------------------------------------------------
(* One frame of effect_checkmk statement by statement, with the poller      *)
(* thread of rgb_keyboard.py inside _fetch_hosts beside it.  Neither class  *)
(* of rgb_keyboard.py takes a lock.                                         *)

\* the renderer at a statement of the frame
At(pc, idx, k, todo, resized, detached, out) ==
    [pc |-> pc, idx |-> idx, k |-> k, todo |-> todo, resized |-> resized,
     detached |-> detached, out |-> out]

\* the frame has returned or raised
Ended == render # None /\ render.pc \in {"returned", "raised"}

\* what insertions into the event dictionaries do to a running iteration:
\* the dictionary the for loop iterates has another size than at its start
AfterInserts(r, old, new) ==
    IF /\ r # None
       /\ r.pc = "next"
       /\ ~r.detached
       /\ DOMAIN StoreOf(new, RenderOrder[r.k]) # DOMAIN StoreOf(old, RenderOrder[r.k])
    THEN [r EXCEPT !.resized = TRUE]
    ELSE r

\* what the sweep does to a running iteration: self.supernovas = {...} binds
\* a new dictionary, the for loop keeps the old one
AfterSweep(r) ==
    IF r # None /\ r.pc = "next" THEN [r EXCEPT !.detached = TRUE] ELSE r

\* _fetch_hosts from response.json() to known_hosts = current_names: the
\* parse loop and the BLACKHOLE and SPAWN blocks insert into the dictionaries
FetchInserts ==
    /\ impl = "legacy"
    /\ fetching = None
    /\ ~Ended
    /\ cycles < MaxCycles
    /\ \E d \in Elapsed, payload \in HostCollections :
        /\ now' = now + d
        /\ fetching' = [payload |-> payload, t |-> now + d, pc |-> "sweep"]
        /\ \E m \in {Diffed(Mon, payload, now + d)} :
            /\ SetMon(m)
            /\ render' = AfterInserts(render, Mon, m)
    /\ UNCHANGED <<impl, lockvars, stopvars, frame, coordvars, busvars, cfgvars, latevars, cycles, histvars,
                   loopvars, trigvars, concvars>>

\* the five dictionary comprehensions of _fetch_hosts
FetchSweeps ==
    /\ fetching # None
    /\ fetching.pc = "sweep"
    /\ ~Ended
    /\ SetMon(Sweep(Mon, "legacy", fetching.t))
    /\ render' = AfterSweep(render)
    /\ fetching' = [fetching EXCEPT !.pc = "replace"]
    /\ UNCHANGED <<impl, lockvars, stopvars, frame, coordvars, busvars, cfgvars, latevars, now, cycles, histvars,
                   loopvars, trigvars, concvars>>

\* self.hosts = new_hosts
FetchReplacesHosts ==
    /\ fetching # None
    /\ fetching.pc = "replace"
    /\ ~Ended
    /\ SetMon([Mon EXCEPT !.hosts = _sort_by_priority(fetching.payload)])
    /\ fetching' = None
    /\ cycles' = cycles + 1
    /\ UNCHANGED <<impl, lockvars, stopvars, frame, coordvars, busvars, cfgvars, latevars, render, now, histvars,
                   loopvars, trigvars, concvars>>

\* if not self.checkmk or not self.checkmk.hosts: return self.effect_breathing()
FrameBegins ==
    /\ impl = "legacy"
    /\ render = None
    /\ render' = IF hosts = <<>>
                 THEN At("returned", 0, 0, {}, FALSE, FALSE, "breathing")
                 ELSE At("check", 1, 0, {}, FALSE, FALSE, "none")
    /\ UNCHANGED <<impl, lockvars, stopvars, frame, coordvars, busvars, cfgvars, latevars, fetching, now, hosts,
                   previous_states, known_hosts, supernovas, phoenixes, warnings,
                   blackholes, spawns, celebration, had_problems, cycles, histvars,
                   loopvars, trigvars, concvars>>

\* for idx, led in enumerate(host_leds): if idx >= len(self.checkmk.hosts)
FrameChecksLength ==
    /\ render # None
    /\ render.pc = "check"
    /\ render' = IF render.idx > HostLeds THEN [render EXCEPT !.pc = "iter", !.k = 1]
                 ELSE IF render.idx > Len(hosts) THEN [render EXCEPT !.idx = @ + 1]
                 ELSE [render EXCEPT !.pc = "index"]
    /\ UNCHANGED <<impl, lockvars, stopvars, frame, coordvars, busvars, cfgvars, latevars, fetching, now, hosts,
                   previous_states, known_hosts, supernovas, phoenixes, warnings,
                   blackholes, spawns, celebration, had_problems, cycles, histvars,
                   loopvars, trigvars, concvars>>

\* host = self.checkmk.hosts[idx]: the attribute is read again
FrameIndexesHosts ==
    /\ render # None
    /\ render.pc = "index"
    /\ render' = IF render.idx > Len(hosts)
                 THEN [render EXCEPT !.pc = "raised", !.out = "IndexError"]
                 ELSE [render EXCEPT !.pc = "check", !.idx = @ + 1]
    /\ UNCHANGED <<impl, lockvars, stopvars, frame, coordvars, busvars, cfgvars, latevars, fetching, now, hosts,
                   previous_states, known_hosts, supernovas, phoenixes, warnings,
                   blackholes, spawns, celebration, had_problems, cycles, histvars,
                   loopvars, trigvars, concvars>>

\* for hostname, event in self.checkmk.<kind>.items(): the iterator is made
FrameStartsLoop ==
    /\ render # None
    /\ render.pc = "iter"
    /\ render' = [render EXCEPT !.pc = "next", !.resized = FALSE, !.detached = FALSE,
                                !.todo = DOMAIN StoreOf(Mon, RenderOrder[render.k])]
    /\ UNCHANGED <<impl, lockvars, stopvars, frame, coordvars, busvars, cfgvars, latevars, fetching, now, hosts,
                   previous_states, known_hosts, supernovas, phoenixes, warnings,
                   blackholes, spawns, celebration, had_problems, cycles, histvars,
                   loopvars, trigvars, concvars>>

\* the for loop asks the iterator for the next item and runs its body; after
\* the last loop the ESC key is set and the colours are returned
FrameNextItem ==
    /\ render # None
    /\ render.pc = "next"
    /\ render' = IF render.resized
                 THEN [render EXCEPT !.pc = "raised", !.out = "RuntimeError"]
                 ELSE IF render.todo # {}
                 THEN [render EXCEPT !.todo = @ \ {CHOOSE n \in @ : TRUE}]
                 ELSE IF render.k < Len(RenderOrder)
                 THEN [render EXCEPT !.pc = "iter", !.k = @ + 1]
                 ELSE [render EXCEPT !.pc = "returned", !.out = "checkmk"]
    /\ UNCHANGED <<impl, lockvars, stopvars, frame, coordvars, busvars, cfgvars, latevars, fetching, now, hosts,
                   previous_states, known_hosts, supernovas, phoenixes, warnings,
                   blackholes, spawns, celebration, had_problems, cycles, histvars,
                   loopvars, trigvars, concvars>>

NextFrame ==
    \/ FetchInserts
    \/ FetchSweeps
    \/ FetchReplacesHosts
    \/ FrameBegins
    \/ FrameChecksLength
    \/ FrameIndexesHosts
    \/ FrameStartsLoop
    \/ FrameNextItem

SpecFrame == Init /\ [][NextFrame]_vars

-----------------------------------------------------------------------------
(* aurenet/core/shutdown.py: ShutdownCoordinator.                           *)

\* the components the application registers
ComponentIds == {"monitor", "keyboard", "audio"}
\* the number of registrations and of shutdown() calls the model follows
MaxComponents == 3
MaxShutdowns == 2

\* the variables outside the coordinator
monvars == <<impl, lockvars, stopvars, frame, render, fetching, busvars, cfgvars, latevars, now, hosts, previous_states,
             known_hosts, supernovas, phoenixes, warnings, blackholes, spawns,
             celebration, had_problems, cycles, histvars, loopvars, trigvars, concvars>>

\* a loop over reversed(self._components) that an exception of stop() ends
RECURSIVE StopLoopAborting(_, _, _)
StopLoopAborting(comps, i, raising) ==
    IF i = 0 THEN <<>>
    ELSE IF comps[i] \in raising THEN <<[component |-> comps[i], raised |-> TRUE]>>
    ELSE <<[component |-> comps[i], raised |-> FALSE]>>
            \o StopLoopAborting(comps, i - 1, raising)

\* for component in reversed(self._components): try: component.stop()
\* except Exception: logger.error(...); from the registration i downwards,
\* with the components whose stop() raises an Exception
RECURSIVE StopLoop(_, _, _)
StopLoop(comps, i, raising) ==
    IF i = 0 THEN <<>>
    ELSE <<[component |-> comps[i], raised |-> comps[i] \in raising]>>
            \o StopLoop(comps, i - 1, raising)

\* ShutdownCoordinator.register
register ==
    /\ Len(components) < MaxComponents
    /\ \E c \in ComponentIds : components' = Append(components, c)
    /\ UNCHANGED <<monvars, shutdown_event, stop_calls>>

\* ShutdownCoordinator.request_shutdown
request_shutdown ==
    /\ shutdown_event' = TRUE
    /\ UNCHANGED <<monvars, components, stop_calls>>

\* ShutdownCoordinator.shutdown
shutdown ==
    /\ Len(stop_calls) < MaxShutdowns
    /\ shutdown_event' = TRUE
    /\ \E raising \in SUBSET ComponentIds :
        stop_calls' = Append(stop_calls,
                             [registered |-> components,
                              stops |-> StopLoop(components, Len(components), raising)])
    /\ UNCHANGED <<monvars, components>>

NextShutdown ==
    \/ register
    \/ request_shutdown
    \/ shutdown

SpecShutdown == Init /\ [][NextShutdown]_vars

-----------------------------------------------------------------------------
(* aurenet/core/events.py: EventBus.     subscribe() runs under the lock, and   *)
(* so does the copy of the handler list in publish(); the handlers are       *)
(* called outside the lock, one call a step.                                 *)

\* the number of subscriptions and of published events the model follows
MaxSubscriptions == 3
MaxEvents == 2

\* the variables outside the event bus
nobusvars == <<impl, lockvars, stopvars, frame, render, fetching, coordvars, cfgvars, latevars, now,
               hosts,
               previous_states, known_hosts, supernovas, phoenixes, warnings, blackholes,
               spawns, celebration, had_problems, cycles, histvars, loopvars, trigvars,
               concvars>>

\* the number of subscriptions made so far
Subscriptions == Len(handlers["speed_changed"]) + Len(handlers["brightness_changed"])

\* a subscription that replaces the handlers of the type
SubscribedAlone(hs, h) == <<h>>

\* self._handlers[event_type].append(handler)
Subscribed(hs, h) == Append(hs, h)

\* a loop that the exception of a handler ends
AfterCallAborting(next, copy, raised) == IF raised THEN Len(copy) + 1 ELSE next + 1

\* for handler in handlers: try: handler(event) except Exception: log; the
\* position in the copy after the call at position next
AfterCall(next, copy, raised) == next + 1

\* EventBus.subscribe
subscribe ==
    /\ Subscriptions < MaxSubscriptions
    /\ \E t \in EventTypes, h \in HandlerIds :
        handlers' = [handlers EXCEPT ![t] = Subscribed(@, h)]
    /\ UNCHANGED <<nobusvars, publishing, published, first_handlers>>

\* publish(): with self._lock: handlers = list(self._handlers.get(event.type, []))
PublishCopies(p) ==
    /\ publishing[p] = None
    /\ Len(published) < MaxEvents
    /\ \E t \in EventTypes :
        /\ published' = Append(published, [type |-> t, at_start |-> handlers[t],
                                     received |-> <<>>, returned |-> FALSE,
                                     overlapped |-> \E q \in Publishers : publishing[q] # None])
        /\ publishing' = [publishing EXCEPT
                            ![p] = [event |-> Len(published) + 1, copy |-> handlers[t],
                                    next |-> 1]]
    /\ first_handlers' = IF first_handlers = None THEN handlers ELSE first_handlers
    /\ UNCHANGED <<nobusvars, handlers>>

\* publish(): one turn of the loop over the copy; the handler returns or
\* raises an Exception
PublishCalls(p) ==
    /\ publishing[p] # None
    /\ publishing[p].next <= Len(publishing[p].copy)
    /\ \E raised \in BOOLEAN :
        /\ published' = [published EXCEPT
                        ![publishing[p].event].received =
                            Append(@, [handler |-> publishing[p].copy[publishing[p].next],
                                       raised |-> raised])]
        /\ publishing' = [publishing EXCEPT
                            ![p].next = AfterCall(@, publishing[p].copy, raised)]
    /\ UNCHANGED <<nobusvars, handlers, first_handlers>>

\* publish(): the loop is over, publish() returns
PublishReturns(p) ==
    /\ publishing[p] # None
    /\ publishing[p].next > Len(publishing[p].copy)
    /\ published' = [published EXCEPT ![publishing[p].event].returned = TRUE]
    /\ publishing' = [publishing EXCEPT ![p] = None]
    /\ UNCHANGED <<nobusvars, handlers, first_handlers>>

NextBus ==
    \/ subscribe
    \/ \E p \in Publishers : PublishCopies(p)
    \/ \E p \in Publishers : PublishCalls(p)
    \/ \E p \in Publishers : PublishReturns(p)

SpecBus == Init /\ [][NextBus]_vars

-----------------------------------------------------------------------------
(* aurenet/core/orchestrator.py: ApplicationOrchestrator.  Speed and         *)
(* brightness are counted in tenths.                                         *)

\* the number of change events the model follows
MaxChanges == 4
\* the deltas of the events, in tenths
Deltas == {-15, -3, 2, 45}

\* the variables outside the orchestrator
nocfgvars == <<impl, lockvars, stopvars, frame, render, fetching, coordvars, busvars, latevars, now,
               hosts, previous_states, known_hosts, supernovas, phoenixes, warnings,
               blackholes, spawns, celebration, had_problems, cycles, histvars, loopvars,
               trigvars, concvars>>

\* a clamp without the upper limit
ClampFromBelow(lo, hi, x) == IF x < lo THEN lo ELSE x

\* max(lo, min(hi, x))
Clamp(lo, hi, x) ==
    LET least == IF x < hi THEN x ELSE hi
    IN IF lo < least THEN least ELSE lo

\* _on_speed_changed up to new_speed = speed + delta, the lock taken
OnSpeedChangedEnters(w) ==
    /\ changing[w] = None
    /\ Acquirable(config_lock, w)
    /\ changes < MaxChanges
    /\ config_lock' = w
    /\ \E delta \in Deltas :
        /\ changing' = [changing EXCEPT
                           ![w] = [field |-> "speed", new |-> effect_config.speed + delta]]
        /\ delta_sums' = [delta_sums EXCEPT !.speed = @ + delta]
    /\ changes' = changes + 1
    /\ UNCHANGED <<nocfgvars, effect_config, seen_config>>

\* _on_brightness_changed up to new_brightness = brightness + delta
OnBrightnessChangedEnters(w) ==
    /\ changing[w] = None
    /\ Acquirable(config_lock, w)
    /\ changes < MaxChanges
    /\ config_lock' = w
    /\ \E delta \in Deltas :
        /\ changing' = [changing EXCEPT
                           ![w] = [field |-> "brightness",
                                   new |-> effect_config.brightness + delta]]
        /\ delta_sums' = [delta_sums EXCEPT !.brightness = @ + delta]
    /\ changes' = changes + 1
    /\ UNCHANGED <<nocfgvars, effect_config, seen_config>>

\* the assignment of the clamped value, and the lock released
ChangeAssigns(w) ==
    /\ changing[w] # None
    /\ effect_config' =
            IF changing[w].field = "speed"
            THEN [effect_config EXCEPT !.speed = Clamp(1, 50, changing[w].new)]
            ELSE [effect_config EXCEPT !.brightness = Clamp(0, 10, changing[w].new)]
    /\ changing' = [changing EXCEPT ![w] = None]
    /\ config_lock' = "free"
    /\ delta_sums' = [delta_sums EXCEPT
                        !.clamped = @ \/ effect_config'[changing[w].field] # changing[w].new]
    /\ UNCHANGED <<nocfgvars, changes, seen_config>>

\* ApplicationOrchestrator.get_effect_config: copy(self._effect_config) under
\* the lock
get_effect_config ==
    /\ config_lock = "free"
    /\ seen_config' = effect_config
    /\ UNCHANGED <<nocfgvars, effect_config, config_lock, changing, changes, delta_sums>>

NextConfig ==
    \/ \E w \in Writers : OnSpeedChangedEnters(w)
    \/ \E w \in Writers : OnBrightnessChangedEnters(w)
    \/ \E w \in Writers : ChangeAssigns(w)
    \/ get_effect_config

SpecConfig == Init /\ [][NextConfig]_vars

-----------------------------------------------------------------------------
(* Vocabulary of the properties.                                           *)

\* the step is a fetch cycle that processed a response
Cycled == cycles' = cycles + 1

\* the response lists the name with this state
ReportedAs(payload, name, state) ==
    \E i \in 1..Len(payload) : payload[i].name = name /\ payload[i].state = state

\* the dictionary holds an event of the name that was written at time t; the
\* clock advances between cycles, so these are the events of the cycle at t
NewIn(d, t, name) == name \in DOMAIN d /\ d[name].start = t

\* the dictionary after the step holds for the name what it held before, or nothing
NotRewritten(before, after, name) ==
    name \in DOMAIN after => name \in DOMAIN before /\ after[name] = before[name]

\* the state the list holds for the name
StateIn(hs, name) == hs[IndexOf(hs, name) + 1].state

-----------------------------------------------------------------------------
(* C1: in a fetch cycle, a host reported CRIT whose recorded state (OK     *)
(* when it has none) is not CRIT has, after the cycle, a SUPERNOVA written *)
(* in this cycle whose prev_state is that recorded state; a host reported  *)
(* CRIT whose recorded state is CRIT keeps the SUPERNOVA it had, if any.   *)
C1_SupernovaOnCrit ==
    [][Cycled =>
        \A n \in HostNames :
            ReportedAs(response', n, CRIT) =>
                LET prev == Get(previous_states, n, OK) IN
                IF prev # CRIT
                THEN /\ NewIn(supernovas', now', n)
                     /\ supernovas'[n].prev_state = prev
                ELSE NotRewritten(supernovas, supernovas', n)]_vars

\* Db stays CRIT and keeps its SUPERNOVA while Srv goes from WARN to CRIT
C1_Witness ==
    /\ cycles >= 2
    /\ hosts # <<>>
    /\ ReportedAs(response, Srv, CRIT) /\ ReportedAs(response, Db, CRIT)
    /\ NewIn(supernovas, now, Srv) /\ supernovas[Srv].prev_state = WARN
    /\ Db \in DOMAIN supernovas /\ supernovas[Db].start < now

C3_WarningOnlyFromOk ==
    [][Cycled =>
        \A n \in HostNames :
            /\ NewIn(warnings', now', n)
                <=> (ReportedAs(response', n, WARN) /\ Get(previous_states, n, OK) = OK)
            /\ ~NewIn(warnings', now', n) => NotRewritten(warnings, warnings', n)]_vars

\* Srv goes from OK to WARN; Db is WARN after CRIT and has no WARNING
C3_Witness ==
    /\ cycles >= 2
    /\ ReportedAs(response, Srv, WARN) /\ ReportedAs(response, Db, WARN)
    /\ NewIn(warnings, now, Srv)
    /\ Db \notin DOMAIN warnings
    /\ Db \in DOMAIN supernovas /\ supernovas[Db].start < now

(* C4: after a fetch cycle previous_states maps every name of the response *)
(* to the state the response reports for it, whether or not an event was   *)
(* written for it, and has no entry for a name that was known and is not   *)
(* in the response.                                                        *)
C4_PreviousStatesFollowPoll ==
    [][Cycled =>
        /\ \A i \in 1..Len(response') :
                /\ response'[i].name \in DOMAIN previous_states'
                /\ previous_states'[response'[i].name] = response'[i].state
        /\ \A n \in known_hosts \ NamesOf(response') :
                n \notin DOMAIN previous_states']_vars

\* Db vanished and lost its entry; Srv, WARN after CRIT with no event written, is recorded WARN
C4_Witness ==
    /\ cycles >= 2
    /\ NewIn(blackholes, now, Db) /\ Db \notin DOMAIN previous_states
    /\ ReportedAs(response, Srv, WARN) /\ previous_states[Srv] = WARN
    /\ ~NewIn(warnings, now, Srv) /\ ~NewIn(supernovas, now, Srv)
    /\ ~NewIn(phoenixes, now, Srv)

(* C5, as claimed: a fetch cycle that processes the very response of the   *)
(* cycle before it, whatever list of (name, state) entries that is, writes *)
(* no event of any kind and leaves the start time of every event alone.    *)
NoEventWritten ==
    /\ \A n \in HostNames :
        /\ NotRewritten(supernovas, supernovas', n)
        /\ NotRewritten(phoenixes, phoenixes', n)
        /\ NotRewritten(warnings, warnings', n)
        /\ NotRewritten(blackholes, blackholes', n)
        /\ NotRewritten(spawns, spawns', n)
    /\ celebration' = celebration \/ celebration' = None

C5_RepeatedPollIsSilent ==
    [][(Cycled /\ repeated') => NoEventWritten]_vars

\* no name is listed twice
DistinctNames(payload) ==
    \A i, j \in 1..Len(payload) : payload[i].name = payload[j].name => i = j

(* C5, amended: a fetch cycle that processes the very response of the      *)
(* cycle before it, a list in which no host name occurs twice, writes no   *)
(* event of any kind and leaves the start time of every event alone.       *)
C5_RepeatedDistinctPollIsSilent ==
    [][(Cycled /\ repeated' /\ DistinctNames(response')) => NoEventWritten]_vars

\* the second all-OK poll in a row: the CELEBRATION and the PHOENIX of the
\* first one are still there, with their start times
C5_Witness ==
    /\ repeated /\ DistinctNames(response) /\ Len(response) = 2
    /\ celebration # None /\ celebration.start < now
    /\ Srv \in DOMAIN phoenixes /\ phoenixes[Srv].start = celebration.start

-----------------------------------------------------------------------------
\* the position of the name in the stable ascending order of the priorities:
\* the entries that sort before the name's first entry
RankIn(payload, name) ==
    LET p == IndexOf(payload, name) + 1 IN
    Cardinality({i \in 1..Len(payload) :
        \/ PriorityOf[payload[i].name] < PriorityOf[name]
        \/ PriorityOf[payload[i].name] = PriorityOf[name] /\ i < p})

\* the cell index the host list gives the name: led_index in aurenet, the
\* position in the list in rgb_keyboard.py
CellIndex(hs, name) ==
    IF impl = "aurenet" THEN hs[IndexOf(hs, name) + 1].led_index ELSE IndexOf(hs, name)

\* no event of any per-host kind was written for the name at time t
NoneNewFor(m, t, name) ==
    \A kind \in Kinds : ~NewIn(StoreOf(m, kind), t, name)

(* C6: a host listed by the response of one cycle and missing from the     *)
(* non-empty response of the next gets a BLACKHOLE written in that next    *)
(* cycle whose key_index is the cell index the host had in the host list   *)
(* of the first one, and loses its entry of previous_states; a host listed *)
(* by both with the same state gets no event written.                      *)
C6_BlackholeOnDisappearance ==
    [][(Cycled /\ cycles > 0 /\ response' # <<>>) =>
        /\ \A n \in NamesOf(response) \ NamesOf(response') :
            /\ NewIn(blackholes', now', n)
            /\ blackholes'[n].key_index = CellIndex(hosts, n)
            /\ blackholes'[n].key_index = RankIn(response, n)
            /\ n \notin DOMAIN previous_states'
        /\ \A n \in NamesOf(response) \cap NamesOf(response') :
            StateIn(response, n) = StateIn(response', n) =>
                /\ NoneNewFor(Mon', now', n)
                /\ \A kind \in Kinds :
                       NotRewritten(StoreOf(Mon, kind), StoreOf(Mon', kind), n)]_vars

\* Db, in cell 1 behind Srv, vanished; Srv stays CRIT and gets nothing
C6_Witness ==
    /\ cycles >= 2
    /\ NamesOf(hosts) = {Srv} /\ ReportedAs(response, Srv, CRIT)
    /\ NewIn(blackholes, now, Db) /\ blackholes[Db].key_index = 1
    /\ Db \notin DOMAIN previous_states
    /\ Srv \in DOMAIN supernovas /\ supernovas[Srv].start < now
    /\ NoneNewFor(Mon, now, Srv)

(* C7: a host missing from the non-empty response of one cycle and listed  *)
(* by the response of the next gets a SPAWN written in that next cycle     *)
(* whose key_index is the host's cell index in the sorted host list of     *)
(* that next cycle.                                                        *)
C7_SpawnOnAppearance ==
    [][(Cycled /\ cycles > 0 /\ response # <<>>) =>
        \A n \in NamesOf(response') \ NamesOf(response) :
            /\ NewIn(spawns', now', n)
            /\ spawns'[n].key_index = RankIn(response', n)
            /\ spawns'[n].key_index = CellIndex(hosts', n)]_vars

\* Db appears behind Srv, which was there before: its SPAWN is at cell 1
C7_Witness ==
    /\ cycles >= 2
    /\ Len(hosts) = 2 /\ hosts[2].name = Db /\ response[1].name = Db
    /\ NewIn(spawns, now, Db) /\ spawns[Db].key_index = 1
    /\ Srv \notin DOMAIN spawns

(* C8, as claimed: a fetch cycle whose response lists a host that had      *)
(* vanished writes a SPAWN and no PHOENIX for it.                          *)
C8_ReappearanceSpawns ==
    [][Cycled =>
        \A n \in departed \cap NamesOf(response') :
            NewIn(spawns', now', n) /\ ~NewIn(phoenixes', now', n)]_vars

(* C8, amended: a fetch cycle whose response lists a host that had         *)
(* vanished writes no PHOENIX for it, whatever its state was; it writes a  *)
(* SPAWN for it when the response of the cycle before was not empty, and   *)
(* no SPAWN when that response was empty.                                  *)
C8_ReappearanceNeverPhoenix ==
    [][Cycled =>
        \A n \in departed \cap NamesOf(response') :
            /\ ~NewIn(phoenixes', now', n)
            /\ NotRewritten(phoenixes, phoenixes', n)
            /\ NewIn(spawns', now', n) <=> response # <<>>]_vars

\* Srv went CRIT, vanished while Db stayed, and is back OK: a SPAWN, no PHOENIX
C8_Witness ==
    /\ cycles = 3
    /\ ReportedAs(response, Srv, OK)
    /\ NewIn(spawns, now, Srv)
    /\ Srv \in DOMAIN supernovas /\ Srv \in DOMAIN blackholes
    /\ Srv \notin DOMAIN phoenixes

\* the BLACKHOLE and SPAWN events the cycle has to write, given the known hosts
DetectionRan ==
    \A n \in HostNames :
        /\ NewIn(blackholes', now', n) <=> n \in known_hosts \ NamesOf(response')
        /\ NewIn(spawns', now', n) <=> n \in NamesOf(response') \ known_hosts

\* the cycle writes no BLACKHOLE and no SPAWN
DetectionSkipped ==
    \A n \in HostNames : ~NewIn(blackholes', now', n) /\ ~NewIn(spawns', now', n)

(* C9, as claimed: the first fetch cycle writes no BLACKHOLE and no SPAWN; *)
(* every later cycle writes a BLACKHOLE for the known names missing from   *)
(* its response and a SPAWN for the names of its response that are not     *)
(* known; after every cycle known_hosts is the set of names of its         *)
(* response.                                                               *)
C9_DetectionSkippedOnlyFirst ==
    [][Cycled =>
        /\ cycles = 0 => DetectionSkipped
        /\ cycles > 0 => DetectionRan
        /\ known_hosts' = NamesOf(response')]_vars

(* C9, amended: a fetch cycle that starts with no known host (the first    *)
(* one, and one that follows an empty response) writes no BLACKHOLE and no *)
(* SPAWN; every other cycle writes a BLACKHOLE for the known names missing *)
(* from its response and a SPAWN for the names of its response that are    *)
(* not known; after every cycle known_hosts is the set of names of its     *)
(* response.                                                               *)
C9_DetectionSkippedWhenNoneKnown ==
    [][Cycled =>
        /\ known_hosts = {} => DetectionSkipped
        /\ known_hosts # {} => DetectionRan
        /\ cycles = 0 => known_hosts = {}
        /\ known_hosts' = NamesOf(response')]_vars

\* Db was listed, then nothing was, then Db is listed again and gets no SPAWN
C9_Witness ==
    /\ cycles = 3
    /\ Db \in DOMAIN blackholes /\ blackholes[Db].start < now
    /\ Db \in NamesOf(hosts) /\ Db \in known_hosts
    /\ Db \notin DOMAIN spawns

(* C10: after a fetch cycle no SUPERNOVA, PHOENIX, WARNING, BLACKHOLE or   *)
(* SPAWN of the store, nor of the snapshot handed to the renderer, has an  *)
(* age at the cycle's timestamp of its kind's window or more, and every    *)
(* event the cycle wrote before its sweep is in the store.                 *)
C10_SweepRemovesExpiredOnly ==
    [][Cycled =>
        /\ \A kind \in Kinds :
            \A n \in DOMAIN StoreOf(Mon', kind) :
                now' - StoreOf(Mon', kind)[n].start < TTL(impl, kind)
        /\ impl = "aurenet" =>
            \A e \in get_animation_events(Mon') :
                e.type \in Kinds => now' - e.start_time < TTL(impl, e.type)
        /\ \A kind \in Kinds :
            \A n \in DOMAIN StoreOf(Diffed(Mon, response', now'), kind) :
                NewIn(StoreOf(Diffed(Mon, response', now'), kind), now', n) =>
                    /\ n \in DOMAIN StoreOf(Mon', kind)
                    /\ StoreOf(Mon', kind)[n] =
                            StoreOf(Diffed(Mon, response', now'), kind)[n]]_vars

\* Srv is CRIT and its SUPERNOVA has been swept, while Db's new WARNING is there
C10_Witness ==
    /\ cycles >= 2
    /\ ReportedAs(response, Srv, CRIT) /\ Srv \notin DOMAIN supernovas
    /\ NewIn(warnings, now, Db)

(* C12: between two responses that list a host that is not OK, and before  *)
(* the first and after the last of them, at most one CELEBRATION is        *)
(* started, however many responses without such a host are processed.      *)
C12_OneCelebrationPerStreak == celebrations <= 1

\* the CELEBRATION started by the second cycle is still the one after the third
C12_Witness ==
    /\ cycles = 3
    /\ celebrations = 1
    /\ hosts # <<>> /\ AllOk(response)
    /\ celebration # None /\ celebration.start < now

(* C13: after a fetch cycle of the aurenet monitor (rgb_keyboard.py has no *)
(* CELEBRATION) that leaves a non-empty host list, CELEBRATION is set only *)
(* if every host of the response is OK and this or an earlier response     *)
(* listed a host that is not OK; if a host of the response is not OK,      *)
(* CELEBRATION is None and had_problems is set; and no step clears         *)
(* had_problems.                                                           *)
C13_CelebrationNeedsLatch ==
    [][/\ had_problems => had_problems'
       /\ (Cycled /\ impl = "aurenet" /\ hosts' # <<>>) =>
            /\ celebration' # None => AllOk(response') /\ problem_seen'
            /\ ~AllOk(response') => celebration' = None /\ had_problems']_vars

\* a CELEBRATION was cleared by a host going WARN, the latch stays set
C13_Witness ==
    /\ cycles = 3
    /\ ReportedAs(response, Db, WARN) /\ ReportedAs(response, Srv, OK)
    /\ celebration = None /\ had_problems
    /\ celebrations = 0
    /\ Db \in DOMAIN phoenixes /\ NewIn(warnings, now, Db)

C15_SameNamesSameOrder ==
    [][(Cycled /\ cycles > 0 /\ NamesOf(response') = NamesOf(response)) =>
        \A n \in NamesOf(response') : IndexOf(hosts', n) = IndexOf(hosts, n)]_vars

\* the sum of the numbers of a sequence of at most two numbers
SumOf(q) == IF Len(q) = 0 THEN 0 ELSE IF Len(q) = 1 THEN q[1] ELSE q[1] + q[2]

\* the monitor's state is what it was before the step
MonUnchanged == Mon' = Mon

(* C16: one run of _fetch_and_update_hosts makes one request more than the *)
(* status source fails, and 3 when it fails three times or more; it sleeps *)
(* 1 s after the first failed attempt and 2 s after the second and not     *)
(* after the third; it calls _process_response at most once, and once when *)
(* it raises nothing; it raises MonitoringError exactly when all three     *)
(* attempts failed, and then without having processed anything.            *)
C16_ThreeAttemptsWithBackoff ==
    [][Cycled =>
        LET f == fetch_log' IN
        /\ f.requests = (IF f.failures < 3 THEN f.failures + 1 ELSE 3)
        /\ f.sleeps = SubSeq(<<1, 2>>, 1, IF f.failures < 3 THEN f.failures ELSE 2)
        /\ now' = f.started + SumOf(f.sleeps)
        /\ f.processed <= 1
        /\ f.raised = "none" => f.processed = 1
        /\ f.raised = "MonitoringError" <=> f.failures = 3
        /\ f.failures = 3 => f.processed = 0 /\ f.printed = 1]_vars

\* the third attempt was answered, after sleeps of 1 s and 2 s
C16_Witness ==
    /\ fetch_log.requests = 3 /\ fetch_log.failures = 2
    /\ fetch_log.sleeps = <<1, 2>>
    /\ fetch_log.processed = 1 /\ fetch_log.raised = "none"
    /\ now = fetch_log.started + 3
    /\ ReportedAs(response, Srv, CRIT) /\ NewIn(supernovas, now, Srv)

(* C17: a loop iteration whose fetch meets a RequestException in all three *)
(* attempts raises one MonitoringError, which the except clause of         *)
(* _update_loop prints once, and leaves hosts, previous_states,            *)
(* known_hosts, the five event dictionaries, celebration and had_problems  *)
(* as they were.                                                           *)
C17_FailedCycleChangesNothing ==
    [][(Cycled /\ fetch_log'.failures = 3) =>
        /\ fetch_log'.raised = "MonitoringError"
        /\ fetch_log'.printed = 1
        /\ fetch_log'.processed = 0
        /\ MonUnchanged]_vars

\* three failures met a monitor that holds hosts, events and the latch
C17_Witness ==
    /\ cycles >= 2
    /\ fetch_log.failures = 3 /\ fetch_log.raised = "MonitoringError"
    /\ fetch_log.requests = 3
    /\ Len(hosts) = 2 /\ known_hosts = {Srv, Db}
    /\ Srv \in DOMAIN supernovas /\ had_problems
    /\ DOMAIN previous_states = {Srv, Db}

(* C18: no loop iteration leaves _update_loop, whether its fetch used up   *)
(* its attempts or _process_response raised; after an iteration that       *)
(* raised, the loop can take another one; and an iteration that follows    *)
(* one that raised and whose fetch is answered leaves the monitor in the   *)
(* state _process_response gives for the response at the time of its       *)
(* processing.                                                             *)
C18_FailedCycleDoesNotStopLoop ==
    /\ [](fetch_log.raised # "none" /\ cycles < MaxCycles => ENABLED NextRetry)
    /\ [][Cycled =>
            /\ thread' = "running"
            /\ (fetch_log.raised # "none" /\ fetch_log'.raised = "none") =>
                   /\ fetch_log'.processed = 1
                   /\ Mon' = _process_response(Mon, response', now')]_vars

\* the second iteration raised, the third is answered and processed: Srv,
\* recorded as CRIT, is reported OK and gets its PHOENIX
C18_Witness ==
    /\ cycles = 3
    /\ thread = "running"
    /\ fetch_log.after_failure /\ fetch_log.raised = "none" /\ fetch_log.processed = 1
    /\ hosts # <<>> /\ known_hosts = NamesOf(response)
    /\ ReportedAs(response, Srv, OK) /\ NewIn(phoenixes, now, Srv)

\* the events of the snapshot of this kind for this host
EventsOf(events, kind, name) ==
    {e \in events : e.type = kind /\ e.hostname = name}

(* C11: the snapshot get_animation_events returns never holds two events   *)
(* of one kind for one host name; an entry of an event dictionary that a   *)
(* step changes carries the clock of that step, which is not before the    *)
(* start of the entry it replaces; and a test trigger consumed by a loop   *)
(* iteration without fetch leaves, for the first host of the list, exactly *)
(* the trigger's event, whatever the dictionary held for that host.        *)
C11_OneEventPerKindAndHost ==
    /\ [](\A kind \in Kinds \cup {"celebration"} :
            \A name \in HostNames \cup {<<"a", "l", "l">>} :
                Cardinality(EventsOf(get_animation_events(Mon), kind, name)) <= 1)
    /\ [][
          /\ \A kind \in Kinds :
               \A n \in (DOMAIN StoreOf(Mon, kind)) \cap (DOMAIN StoreOf(Mon', kind)) :
                   \/ StoreOf(Mon', kind)[n] = StoreOf(Mon, kind)[n]
                   \/ /\ StoreOf(Mon', kind)[n].start = now'
                      /\ StoreOf(Mon', kind)[n].start >= StoreOf(Mon, kind)[n].start
          /\ (ticks' = ticks + 1 /\ hosts # <<>>) =>
               \A kind \in Kinds :
                   consumed'[kind] > consumed[kind] =>
                       /\ hosts[1].name \in DOMAIN StoreOf(Mon', kind)
                       /\ StoreOf(Mon', kind)[hosts[1].name] = TestEvent(kind, now')
       ]_vars

\* the only cycle so far wrote Db's SUPERNOVA with priority 7 at time 1; the
\* trigger consumed one second later has replaced it
C11_Witness ==
    /\ cycles = 1 /\ ticks = 1 /\ now = 2
    /\ hosts # <<>> /\ hosts[1].name = Db
    /\ ReportedAs(response, Db, CRIT)
    /\ consumed["supernova"] = 1
    /\ supernovas[Db] = [start |-> 2, prev_state |-> 0, priority |-> 0]
    /\ Cardinality(EventsOf(get_animation_events(Mon), "supernova", Db)) = 1

(* C19: for every kind, check_and_clear has returned True for its trigger  *)
(* at most as many times as its trigger file was created.                  *)
C19_TriggerConsumedAtMostOnce ==
    \A kind \in Kinds : consumed[kind] <= injected[kind]

\* what get_hosts and get_animation_events return in a state of the monitor
SnapshotOf(m) ==
    [hosts |-> get_hosts(m), events |-> get_animation_events(m), complete |-> TRUE]

(* C20: what the renderer has read with get_hosts and get_animation_events *)
(* while a cycle runs is what the two return before the cycle or what they *)
(* return after it.                                                        *)
C20_SnapshotIsPreOrPostCycle ==
    (poll # None /\ snapshot # None /\ snapshot.complete) =>
        \/ snapshot = SnapshotOf(poll.pre)
        \/ snapshot = SnapshotOf(_process_response(poll.pre, poll.payload, poll.t))

\* the renderer is inside get_animation_events and waits for _hosts_lock
RendererWaitsForHostsLock ==
    /\ renderer = "events"
    /\ animation_lock = "renderer"
    /\ LooksUpHosts(Mon)
    /\ hosts_lock = "poller"

\* the poller holds _hosts_lock and waits for _animation_lock
PollerWaitsForAnimationLock ==
    /\ poll # None
    /\ poll.pc \in {"celebrate_hosts", "trigger_hosts"}
    /\ hosts_lock = "poller"
    /\ animation_lock = "renderer"

\* C21: in no reachable state do the renderer and the poller each hold one
\* of _hosts_lock and _animation_lock while waiting for the other, so that
\* every call of the renderer returns
C21_NoLockCycle ==
    ~(RendererWaitsForHostsLock /\ PollerWaitsForAnimationLock)

\* the statements of the loop the thread has before it when no iteration follows
Rank(pc) ==
    CASE pc = "triggers" -> 3
      [] pc = "fetch" -> 2
      [] pc = "test" -> 1
      [] pc = "exited" -> 0

FadesToBlue(n) ==
    /\ frame # None
    /\ frame.pattern = "checkmk"
    /\ n \in DOMAIN supernovas
    /\ CellOf(Mon, n) # 0
    /\ Age(supernovas[n], frame.at) >= 40
    /\ Age(supernovas[n], frame.at) < 55
    /\ \A kind \in Kinds \ {"supernova"} : Painters(Mon, kind, CellOf(Mon, n), frame.at) = {}

\* the channel x of the cell is the channel p of the previous colour blended
\* linearly with the channel q of blue by k/15 and cut to an integer y (or
\* y - 1 where the blend is the integer y and the float sum falls short of
\* it), times the brightness b, cut to an integer
IsBlend(x, p, q, k, b) ==
    \E z \in ((x * 10) \div b)..(((x * 10) \div b) + 2) :
        /\ 10 * x <= z * b
        /\ z * b < 10 * (x + 1)
        /\ \/ /\ 15 * z <= p * (15 - k) + q * k
              /\ p * (15 - k) + q * k < 15 * (z + 1)
           \/ /\ 15 * (z + 1) = p * (15 - k) + q * k
              /\ p # q

Lesser(p, q) == IF p < q THEN p ELSE q
Greater(p, q) == IF p < q THEN q ELSE p

\* the fade of the host is drawn as the claim's blend
BlendDrawn(n) ==
    LET cell == frame.cells[CellOf(Mon, n)]
        prev == PrevColor(supernovas[n].prev_state)
    IN /\ cell.by = "supernova"
       /\ cell.phase = 2
       /\ \A i \in 1..3 :
            IsBlend(cell.rgb[i], prev[i], Blue[i],
                    Age(supernovas[n], frame.at) - 40, frame.brightness)

\* C24 as stated: the cell of a SUPERNOVA between 4 s and 5.5 s old is the
\* linear blend of the previous colour and blue by (age - 4) / 1.5, and at
\* 4.6 s, at full brightness, every channel lies strictly between the
\* channel of the previous colour and the channel of blue
C24_StrictlyBetweenEveryChannel ==
    \A n \in HostNames :
        FadesToBlue(n) /\ frame.brightness = 10 =>
            /\ BlendDrawn(n)
            /\ Age(supernovas[n], frame.at) = 46 =>
                 \A i \in 1..3 :
                    LET x == frame.cells[CellOf(Mon, n)].rgb[i]
                        p == PrevColor(supernovas[n].prev_state)[i]
                    IN Lesser(p, Blue[i]) < x /\ x < Greater(p, Blue[i])

\* C24, amended: the cell is that blend, cut to integers and scaled by the
\* brightness; at 4.6 s and full brightness every channel lies between the
\* two channels, strictly where the two channels differ
C24_BlendBetweenChannels ==
    \A n \in HostNames :
        FadesToBlue(n) =>
            /\ BlendDrawn(n)
            /\ Age(supernovas[n], frame.at) = 46 /\ frame.brightness = 10 =>
                 \A i \in 1..3 :
                    LET x == frame.cells[CellOf(Mon, n)].rgb[i]
                        p == PrevColor(supernovas[n].prev_state)[i]
                    IN /\ Lesser(p, Blue[i]) <= x
                       /\ x <= Greater(p, Blue[i])
                       /\ p # Blue[i] => Lesser(p, Blue[i]) < x /\ x < Greater(p, Blue[i])

\* a frame at full brightness 4.6 s into the SUPERNOVA of a host that was
\* UNKNOWN before
C24_Witness ==
    \E n \in HostNames :
        /\ FadesToBlue(n)
        /\ Age(supernovas[n], frame.at) = 46
        /\ frame.brightness = 10
        /\ supernovas[n].prev_state = 3
        /\ frame.cells[CellOf(Mon, n)].rgb \in {<<110, 50, 222>>, <<109, 50, 221>>}

\* the end of the timeline of a kind: the age from which no branch with a
\* bound applies
TimelineEnd(kind) == PhaseEnds(kind)[Len(PhaseEnds(kind))]

\* the event of the host is in the store at the frame, is drawn at a cell and
\* is as old as the timeline of its kind or older
Finished(kind, n) ==
    /\ frame # None
    /\ frame.pattern = "checkmk"
    /\ n \in DOMAIN StoreOf(Mon, kind)
    /\ TargetCell(Mon, kind, n) # 0
    /\ Age(StoreOf(Mon, kind)[n], frame.at) >= TimelineEnd(kind)

\* no other event is drawn at the cell of the event in this frame
AloneAtCell(kind, n) ==
    /\ \A other \in Kinds \ {kind} :
            Painters(Mon, other, TargetCell(Mon, kind, n), frame.at) = {}
    /\ Painters(Mon, kind, TargetCell(Mon, kind, n), frame.at) \subseteq {n}

\* a finished event runs no loop over the other cells
FinishedSpreadsNothing ==
    \A kind \in Kinds, n \in HostNames : Finished(kind, n) => <<kind, n>> \notin frame.spread

\* the cell of a finished event has the colouring of a cell without event:
\* the theme's colour of the state of the host at the cell, or the dark of a
\* cell without host
FinishedShowsSteadyState ==
    \A kind \in Kinds, n \in HostNames :
        Finished(kind, n) /\ AloneAtCell(kind, n) =>
            LET c == TargetCell(Mon, kind, n)
            IN IF c <= Len(hosts)
               THEN /\ frame.cells[c].rgb = get_status_color(hosts[c].state)
                    /\ frame.cells[c].shows = hosts[c].state
               ELSE frame.cells[c].by = "unused"

\* below the end of the timeline exactly one branch of the chain applies
OnePhaseApplies ==
    \A kind \in Kinds : \A age \in 0..(TimelineEnd(kind) - 1) :
        Cardinality({i \in DOMAIN PhaseEnds(kind) : PhaseApplies(kind, i, age)}) = 1

\* C25: an event in the store that is as old as the timeline of its kind or
\* older changes no cell but the host's own, the host's cell shows the
\* steady-state colouring, and below the end of the timeline exactly one
\* phase applies to an age
C25_FinishedFallsBackToSteadyState ==
    /\ FinishedSpreadsNothing
    /\ FinishedShowsSteadyState
    /\ OnePhaseApplies

\* C23: effect_checkmk returns its colours without raising, the idle pattern
\* when no hosts are loaded, also while the poller thread writes
C23_FrameNeverRaises ==
    render # None =>
        /\ render.pc # "raised"
        /\ render.pc = "returned" => render.out \in {"breathing", "checkmk"}

\* C26: a state value outside the enumeration is treated as UNKNOWN: the
\* host records, previous_states and the prev_state of every event hold one
\* of the four states after every poll
C26_StoredStatesAreEnumerated ==
    /\ \A i \in 1..Len(hosts) : hosts[i].state \in States
    /\ \A n \in DOMAIN previous_states : previous_states[n] \in States
    /\ \A n \in DOMAIN supernovas : supernovas[n].prev_state \in States
    /\ \A n \in DOMAIN phoenixes : phoenixes[n].prev_state \in States

\* the stop() calls of a call of shutdown() are the registrations it met,
\* last registered first, one call per registration, whether or not a
\* stop() raised
StopsInReverse(call) ==
    /\ Len(call.stops) = Len(call.registered)
    /\ \A i \in 1..Len(call.stops) :
            call.stops[i].component = call.registered[Len(call.registered) - i + 1]

Called(e) == [i \in 1..Len(e.received) |-> e.received[i].handler]

\* C28: publish(e) calls the handlers subscribed to e.type when it starts,
\* each once, in subscription order, and no other handler; a handler that
\* raises does not keep the ones after it from being called, and publish()
\* returns
C28_PublishCallsSubscribersInOrder ==
    /\ [](\A k \in 1..Len(published) :
            /\ Len(published[k].received) <= Len(published[k].at_start)
            /\ Called(published[k])
                 = SubSeq(published[k].at_start, 1, Len(published[k].received))
            /\ published[k].returned => Called(published[k]) = published[k].at_start)
    /\ [](\A p \in Publishers :
            publishing[p] # None => ENABLED (PublishCalls(p) \/ PublishReturns(p)))

\* a returned publish() over two subscriptions of the type and one of the
\* other type, in which the first handler raised and the second was called
C28_Witness ==
    \E k \in 1..Len(published) :
        /\ published[k].returned
        /\ published[k].type = "speed_changed"
        /\ published[k].at_start = <<"h1", "h2">>
        /\ handlers["brightness_changed"] = <<"h1">>
        /\ published[k].received = <<[handler |-> "h1", raised |-> TRUE],
                                  [handler |-> "h2", raised |-> FALSE]>>

\* C29: with several threads inside publish() and another one subscribing,
\* every handler subscribed before the first publish() began gets each
\* published event, once per subscription: the calls of a returned publish()
\* begin with those subscriptions, and are subscriptions of the type, each
\* called once
C29_NoEventLostOrDuplicated ==
    \A k \in 1..Len(published) :
        published[k].returned =>
            LET first == first_handlers[published[k].type]
                called == Called(published[k])
                now_subscribed == handlers[published[k].type]
            IN /\ Len(first) <= Len(called)
               /\ SubSeq(called, 1, Len(first)) = first
               /\ Len(called) <= Len(now_subscribed)
               /\ called = SubSeq(now_subscribed, 1, Len(called))

\* two publishes of one type inside publish() at the same time, a handler
\* subscribed between their copies, both returned
C29_Witness ==
    /\ Len(published) = 2
    /\ published[1].returned /\ published[2].returned
    /\ published[2].overlapped
    /\ published[1].type = "speed_changed" /\ published[2].type = "speed_changed"
    /\ first_handlers["speed_changed"] = <<"h1">>
    /\ Called(published[1]) = <<"h1">>
    /\ Called(published[2]) = <<"h1", "h2">>

basevars == <<impl, lockvars, stopvars, frame, render, fetching, now, hosts, previous_states,
              known_hosts, supernovas, phoenixes, warnings, blackholes, spawns, celebration,
              had_problems, cycles, histvars, loopvars, trigvars, concvars>>
oldvars == <<basevars, coordvars, busvars, cfgvars>>

\* the keys the model presses: ESC, right CTRL and a key without an action
Keycodes == {"KEY_ESC", "KEY_RIGHTCTRL", "KEY_A"}
\* the tenths of a second between two key events
KeyDelays == {0, 3, 10, 11}
MaxKeys == 4
\* the default of the constructor's esc_hold_duration, 1.0 s
esc_hold_duration == 10

\* KeyboardMapper.get_action for the keys of the model
get_action(keycode) ==
    IF keycode = "KEY_ESC" THEN "exit"
    ELSE IF keycode = "KEY_RIGHTCTRL" THEN "show_hostlist"
    ELSE "none"

\* the truth value Python gives self._esc_press_time
Truthy(t) == t # None /\ t.time # 0

\* a hold test that accepts a hold of exactly esc_hold_duration
HeldAtLeast(t, press) == t - press >= esc_hold_duration

\* time.time() - self._esc_press_time > self._esc_hold_duration
HeldLongEnough(t, press) == t - press > esc_hold_duration

\* _handle_key_press at clock t: the new _esc_press_time, _rctrl_pressed and
\* the event types published, in order; every key of the model has a LED
_handle_key_press(keycode, t) ==
    LET action == get_action(keycode) IN
    [esc_press_time |-> IF action = "exit" THEN [time |-> t] ELSE esc_press_time,
     rctrl_pressed  |-> (rctrl_pressed \/ action = "show_hostlist"),
     published      |-> IF action = "show_hostlist"
                        THEN <<"key_pressed", "key_pressed">>
                        ELSE <<"key_pressed">>]

\* _handle_key_release at clock t
_handle_key_release(keycode, t) ==
    LET esc == keycode # "KEY_RIGHTCTRL" /\ keycode = "KEY_ESC" /\ Truthy(esc_press_time) IN
    [esc_press_time |-> IF esc THEN None ELSE esc_press_time,
     rctrl_pressed  |-> (rctrl_pressed /\ keycode # "KEY_RIGHTCTRL"),
     published      |-> IF esc /\ HeldLongEnough(t, esc_press_time.time)
                        THEN <<"shutdown_requested", "key_released">>
                        ELSE <<"key_released">>]

\* handle_key(keycode, pressed), d tenths of a second after the call before
handle_key(keycode, pressed) ==
    /\ Len(key_log) < MaxKeys
    /\ \E d \in KeyDelays :
        LET r == IF pressed THEN _handle_key_press(keycode, wall + d)
                 ELSE _handle_key_release(keycode, wall + d) IN
        /\ wall' = wall + d
        /\ pressed_keys' = IF pressed THEN pressed_keys \cup {keycode}
                           ELSE pressed_keys \ {keycode}
        /\ esc_press_time' = r.esc_press_time
        /\ rctrl_pressed' = r.rctrl_pressed
        /\ key_log' = Append(key_log, [keycode |-> keycode, pressed |-> pressed,
                                       at |-> wall + d, published |-> r.published])
    /\ UNCHANGED <<oldvars, unsub_log, restartvars>>

NextInput == \E keycode \in Keycodes, pressed \in BOOLEAN : handle_key(keycode, pressed)

SpecInput == Init /\ [][NextInput]_vars

\* the calls before call i that pressed ESC, and those that released it
EscPresses(i) == {j \in 1..(i - 1) : key_log[j].keycode = "KEY_ESC" /\ key_log[j].pressed}
EscReleases(i) == {j \in 1..(i - 1) : key_log[j].keycode = "KEY_ESC" /\ ~key_log[j].pressed}
Latest(calls) == CHOOSE j \in calls : \A k \in calls : k <= j
\* ESC was pressed before call i and not released since
EscDown(i) == EscPresses(i) # {} /\ \A r \in EscReleases(i) : r < Latest(EscPresses(i))
\* the SHUTDOWN_REQUESTED events call i published
Shutdowns(i) ==
    Cardinality({n \in 1..Len(key_log[i].published) :
                    key_log[i].published[n] = "shutdown_requested"})

\* C31: a release of ESC publishes SHUTDOWN_REQUESTED, once, exactly when ESC
\* was pressed since its last release and the time since its most recent
\* press exceeds esc_hold_duration; no other call of handle_key publishes
\* it, a press of ESC included; and after every release of ESC no press
\* time is recorded, so that a second release publishes nothing.
C31_EscHoldRequestsShutdown ==
    /\ \A i \in 1..Len(key_log) :
        IF key_log[i].keycode = "KEY_ESC" /\ ~key_log[i].pressed
        THEN Shutdowns(i) =
                IF /\ EscDown(i)
                   /\ key_log[i].at - key_log[Latest(EscPresses(i))].at > esc_hold_duration
                THEN 1 ELSE 0
        ELSE Shutdowns(i) = 0
    /\ (/\ key_log # <<>>
        /\ key_log[Len(key_log)].keycode = "KEY_ESC"
        /\ ~key_log[Len(key_log)].pressed) => esc_press_time = None

\* ESC held for 1.1 s requested the shutdown, ESC held for exactly 1.0 s did not
C31_Witness ==
    /\ \E i \in 1..Len(key_log) : Shutdowns(i) = 1
    /\ \E i \in 1..Len(key_log) :
        /\ key_log[i].keycode = "KEY_ESC" /\ ~key_log[i].pressed /\ EscDown(i)
        /\ key_log[i].at - key_log[Latest(EscPresses(i))].at = esc_hold_duration
        /\ Shutdowns(i) = 0

\* the place of a writer in the order of the frame: the first loop, the five
\* loops over the events, the ESC key
KindRank(by) ==
    IF \E i \in DOMAIN RenderOrder : RenderOrder[i] = by
    THEN CHOOSE i \in DOMAIN RenderOrder : RenderOrder[i] = by
    ELSE IF by = "esc" THEN Len(RenderOrder) + 1 ELSE 0

ConsumedNow == {k \in Kinds : consumed'[k] > consumed[k]}

\* the step wrote the store of the kind as a consumed trigger does: one
\* event for the first host, of priority 0, started now, at position 0 for
\* BLACKHOLE and SPAWN, every other event of the store as it was
TriggerWrote(kind, before, after) ==
    /\ DOMAIN after = DOMAIN before \cup {hosts[1].name}
    /\ \A n \in DOMAIN before \ {hosts[1].name} : after[n] = before[n]
    /\ after[hosts[1].name].start = now'
    /\ after[hosts[1].name].priority = 0
    /\ kind \in {"blackhole", "spawn"} => after[hosts[1].name].key_index = 0

\* what a trigger tick did to the store of the kind
TickKeepsOrWrites(kind, before, after) ==
    IF kind \in ConsumedNow /\ hosts # <<>>
    THEN TriggerWrote(kind, before, after)
    ELSE after = before

\* C33: a trigger tick writes, for every kind whose trigger it consumed, one
\* event of the kind for the first host of the host list (priority 0, start
\* now, position 0 for BLACKHOLE and SPAWN), and nothing when the host list is
\* empty; it leaves the other events, the host list, the previous states,
\* the known hosts, the CELEBRATION and its latch as they were.
C33_TriggerTickWritesOneEvent ==
    [][ticks' # ticks =>
          /\ TickKeepsOrWrites("supernova", supernovas, supernovas')
          /\ TickKeepsOrWrites("phoenix", phoenixes, phoenixes')
          /\ TickKeepsOrWrites("warning", warnings, warnings')
          /\ TickKeepsOrWrites("blackhole", blackholes, blackholes')
          /\ TickKeepsOrWrites("spawn", spawns, spawns')
          /\ UNCHANGED <<hosts, previous_states, known_hosts, celebration, had_problems>>]_vars

\* a tick has consumed a trigger and its event for the first host is in the store
C33_Witness ==
    /\ ticks > 0
    /\ hosts # <<>>
    /\ \E kind \in Kinds :
        /\ consumed[kind] > 0
        /\ hosts[1].name \in DOMAIN StoreOf(Mon, kind)
        /\ StoreOf(Mon, kind)[hosts[1].name].start = now
        /\ StoreOf(Mon, kind)[hosts[1].name].priority = 0
        /\ Cardinality(DOMAIN StoreOf(Mon, kind)) > 1

\* the step is a return of get_hosts or of get_animation_events
ReadReturns == snapshot' # None /\ snapshot' # snapshot

\* the step removed an event of the kind
Removes(before, after) == \E n \in DOMAIN before : n \notin DOMAIN after

\* C34: a call of get_hosts or get_animation_events leaves the host list,
\* the previous states, the known hosts, the five event stores, the
\* CELEBRATION and its latch as they were; an event leaves its store only
\* in a step of a poll cycle, never in a read.
C34_ReadsMutateNothing ==
    [][/\ ReadReturns =>
             UNCHANGED <<hosts, previous_states, known_hosts, supernovas, phoenixes,
                         warnings, blackholes, spawns, celebration, had_problems>>
       /\ (\/ Removes(supernovas, supernovas')
           \/ Removes(phoenixes, phoenixes')
           \/ Removes(warnings, warnings')
           \/ Removes(blackholes, blackholes')
           \/ Removes(spawns, spawns')) => (poll # None /\ ~ReadReturns)]_vars

\* get_animation_events has returned an event that the sweep of the running
\* cycle is about to remove
C34_Witness ==
    /\ poll # None
    /\ poll.pc \in {"track", "detect", "sweep"}
    /\ snapshot # None
    /\ snapshot.complete
    /\ \E ev \in snapshot.events :
        /\ ev.type # "celebration"
        /\ poll.t - ev.start_time >= AurenetTTL

(***************************************************************************)
(* EventBus.unsubscribe and EventBus.clear beside the publishing threads.  *)
(***************************************************************************)

MaxRemovals == 1

\* a removal that takes every subscription of the handler
RemovedEverywhere(hs, h) == SelectSeq(hs, LAMBDA x : x # h)

\* self._handlers[event_type].remove(handler), with the ValueError of a
\* handler that is not in the list passed over
RECURSIVE Removed(_, _)
Removed(hs, h) ==
    IF hs = <<>> THEN <<>>
    ELSE IF Head(hs) = h THEN Tail(hs)
    ELSE <<Head(hs)>> \o Removed(Tail(hs), h)

\* unsubscribe(event_type, handler), under the lock
unsubscribe ==
    /\ Len(unsub_log) < MaxRemovals
    /\ \E t \in EventTypes, h \in HandlerIds :
        /\ handlers' = [handlers EXCEPT ![t] = Removed(@, h)]
        /\ unsub_log' = Append(unsub_log,
                               [op |-> "unsubscribe", type |-> t, handler |-> h,
                                begun |-> Len(published)])
    /\ UNCHANGED <<basevars, coordvars, cfgvars, inputvars, restartvars, publishing, published,
                   first_handlers>>

\* clear(), under the lock
clear ==
    /\ Len(unsub_log) < MaxRemovals
    /\ handlers' = [t \in EventTypes |-> <<>>]
    /\ unsub_log' = Append(unsub_log,
                           [op |-> "clear", type |-> "all", handler |-> "all",
                            begun |-> Len(published)])
    /\ UNCHANGED <<basevars, coordvars, cfgvars, inputvars, restartvars, publishing, published,
                   first_handlers>>

\* one thread publishes, the others subscribe, unsubscribe and clear
NextUnsubscribe ==
    \/ subscribe
    \/ unsubscribe
    \/ clear
    \/ PublishCopies("p1")
    \/ PublishCalls("p1")
    \/ PublishReturns("p1")

SpecUnsubscribe == Init /\ [][NextUnsubscribe]_vars

\* the handler is subscribed to the type
IsSubscribed(hs, t, h) == \E i \in 1..Len(hs[t]) : hs[t][i] = h

\* the step is a call of handler h for published event k
CallOf(k, h) ==
    /\ k <= Len(published)
    /\ Len(published'[k].received) = Len(published[k].received) + 1
    /\ published'[k].received[Len(published'[k].received)].handler = h

\* C35 as stated: no handler is called while it is not subscribed to the
\* type of the event, whenever the publish began.
C35_NoCallAfterUnsubscribe ==
    [][\A k \in 1..MaxEvents, h \in HandlerIds :
          CallOf(k, h) => IsSubscribed(handlers, published[k].type, h)]_vars

\* the log entry is of a call that can have taken handler h away from type t
TookAway(u, t, h) == u.op = "clear" \/ (u.type = t /\ u.handler = h)

\* hs without its first h
WithoutFirst(hs, h) ==
    IF \E i \in 1..Len(hs) : hs[i] = h
    THEN LET i == CHOOSE j \in 1..Len(hs) : hs[j] = h /\ \A l \in 1..(j - 1) : hs[l] # h
         IN SubSeq(hs, 1, i - 1) \o SubSeq(hs, i + 1, Len(hs))
    ELSE hs

\* the step is the return of an unsubscribe() or a clear()
Removal == Len(unsub_log') = Len(unsub_log) + 1

\* C35: unsubscribe(type, h) takes the first subscription of h to the type
\* away and leaves every other subscription, all of them when h is not
\* subscribed; clear() takes all away.  A handler is called while it is not
\* subscribed only for an event whose publish had begun before the
\* unsubscribe or clear that took it away returned: a publish that begins
\* later does not call it.
C35_NoCallFromLaterPublish ==
    [][/\ Removal =>
             LET u == unsub_log'[Len(unsub_log')] IN
             \A t \in EventTypes :
                handlers'[t] = IF u.op = "clear" THEN <<>>
                               ELSE IF t = u.type THEN WithoutFirst(handlers[t], u.handler)
                               ELSE handlers[t]
       /\ \A k \in 1..MaxEvents, h \in HandlerIds :
             (CallOf(k, h) /\ ~IsSubscribed(handlers, published[k].type, h)) =>
                 \E i \in 1..Len(unsub_log) :
                    /\ TookAway(unsub_log[i], published[k].type, h)
                    /\ k <= unsub_log[i].begun]_vars

\* a handler subscribed twice has lost its first subscription, and a publish
\* begun afterwards has called the handlers left and returned
C35_Witness ==
    /\ Len(unsub_log) = 1
    /\ unsub_log[1].op = "unsubscribe"
    /\ unsub_log[1].handler = "h1"
    /\ handlers[unsub_log[1].type] = <<"h2", "h1">>
    /\ \E k \in 1..Len(published) :
        /\ k > unsub_log[1].begun
        /\ published[k].returned
        /\ published[k].type = unsub_log[1].type
        /\ Called(published[k]) = <<"h2", "h1">>

\* the step took the event of the host out of the store of the kind
Swept(kind, n) ==
    /\ n \in DOMAIN StoreOf(Mon, kind)
    /\ n \notin DOMAIN StoreOf(Mon, kind)'

\* C36: an event leaves its store only at an age that is at least the
\* length of the timeline of its kind (SUPERNOVA 12.5 s, PHOENIX 5.5 s,
\* WARNING 3.5 s, BLACKHOLE 5 s, SPAWN 3.5 s), in both monitors and for every
\* time between two polls.
C36_SweptOnlyWhenFinished ==
    [][\A kind \in Kinds, n \in HostNames :
          Swept(kind, n) =>
              10 * (now' - StoreOf(Mon, kind)[n].start) >= TimelineEnd(kind)]_vars

-----------------------------------------------------------------------------
(* start() and stop() called again and again by the owner of the monitor.  *)
(* The thread of the first start() is the one of the loop above; pollers   *)
(* holds the threads of the start() calls after a stop().                  *)

\* the threads a sequence of calls may create after the first
MaxRestarts == 1
\* the start() calls on a running monitor the model follows
MaxIgnored == 1
\* the stop() calls the model follows
MaxStops == 2
\* the fetch cycles of all threads together the model follows
MaxRestartCycles == 2
\* self._thread.join(timeout=5.0)
JoinTimeout == 5

\* what neither the owner nor a poller thread touches
apartvars == <<impl, lockvars, frame, render, fetching, concvars, coordvars, busvars,
               cfgvars, inputvars, unsub_log>>
\* the state of the monitor the loop works on
monitorvars == <<hosts, previous_states, known_hosts, supernovas, phoenixes, warnings,
                 blackholes, spawns, celebration, had_problems>>

\* the statement the thread self._thread refers to is at
JoinedThreadAt == IF pollers = <<>> THEN loop_pc ELSE pollers[Len(pollers)].pc

\* start(): returns at once on a running monitor, otherwise sets _running,
\* creates a thread for _update_loop, keeps it in self._thread and starts it
start ==
    /\ impl = "aurenet"
    /\ owner.at = "idle"
    /\ IF running
       THEN /\ owner.ignored < MaxIgnored
            /\ owner' = [owner EXCEPT !.ignored = @ + 1]
            /\ UNCHANGED <<running, pollers>>
       ELSE /\ Len(pollers) < MaxRestarts
            /\ running' = TRUE
            /\ pollers' = Append(pollers, [pc |-> "test", iterations |-> 0])
            /\ UNCHANGED owner
    /\ UNCHANGED <<apartvars, monitorvars, now, cycles, histvars, loopvars, trigvars,
                   loop_pc, iterations, stopped>>

\* stop(): self._running = False, then the join of self._thread begins
stop ==
    /\ impl = "aurenet"
    /\ owner.at = "idle"
    /\ owner.stops < MaxStops
    /\ running' = FALSE
    /\ stopped' = [iteration |-> iterations, at |-> loop_pc]
    /\ owner' = [owner EXCEPT !.at = "join", !.stops = @ + 1]
    /\ UNCHANGED <<apartvars, monitorvars, now, cycles, histvars, loopvars, trigvars,
                   loop_pc, iterations, pollers>>

\* self._thread.join(timeout=5.0) returns and with it stop(): the thread has
\* left the loop, or the 5 s have passed while the thread is inside a fetch
join ==
    /\ owner.at = "join"
    /\ \/ /\ JoinedThreadAt = "exited"
          /\ owner' = [owner EXCEPT !.at = "idle", !.timed_out = FALSE]
          /\ UNCHANGED now
       \/ /\ JoinedThreadAt = "fetch"
          /\ owner' = [owner EXCEPT !.at = "idle", !.timed_out = TRUE]
          /\ now' = now + JoinTimeout
    /\ UNCHANGED <<apartvars, monitorvars, cycles, histvars, loopvars, trigvars,
                   stopvars, pollers>>

\* while self._running, in a thread of a later start()
PollerTest(i) ==
    /\ pollers[i].pc = "test"
    /\ IF LoopCondition(running)
       THEN /\ pollers[i].iterations < MaxIterations
            /\ pollers' = [pollers EXCEPT ![i].pc = "triggers", ![i].iterations = @ + 1]
       ELSE pollers' = [pollers EXCEPT ![i].pc = "exited"]
    /\ UNCHANGED <<apartvars, monitorvars, now, cycles, histvars, loopvars, trigvars,
                   stopvars, owner>>

\* self._check_test_triggers() and the comparison of the clock with
\* last_fetch, which is 0.0 in the first iteration of a thread
PollerTriggers(i) ==
    /\ pollers[i].pc = "triggers"
    /\ \E due \in (IF pollers[i].iterations = 1 THEN {TRUE} ELSE BOOLEAN) :
        \E d \in (IF due THEN Elapsed ELSE TickDelays) :
        \E c \in {_check_test_triggers(Mon, trigger_files, stuck, now + d)} :
           /\ now' = now + d
           /\ SetMon(c.mon)
           /\ trigger_files' = c.files
           /\ consumed' = [k \in Kinds |-> consumed[k] + IF k \in c.found THEN 1 ELSE 0]
           /\ pollers' = [pollers EXCEPT ![i].pc = IF due THEN "fetch" ELSE "test"]
           /\ ticks' = IF due THEN ticks ELSE ticks + 1
    /\ UNCHANGED <<apartvars, cycles, histvars, loopvars, stuck, injected, stopvars, owner>>

\* self._fetch_and_update_hosts() and the sleep after it, or the except clause
PollerFetch(i) ==
    /\ pollers[i].pc = "fetch"
    /\ cycles < MaxRestartCycles
    /\ \E outcomes \in StopOutcomes :
        \E r \in {_fetch_and_update_hosts(Mon, outcomes, now)} :
           /\ cycles' = cycles + 1
           /\ now' = r.t
           /\ SetMon(r.mon)
           /\ IF r.processed > 0
              THEN Record(outcomes[r.requests].payload)
              ELSE UNCHANGED histvars
           /\ fetch_log' = [requests |-> r.requests, sleeps |-> r.sleeps,
                            processed |-> r.processed, raised |-> r.raised,
                            printed |-> IF r.raised # "none" /\ Caught(r.raised)
                                        THEN 1 ELSE 0,
                            failures |-> FailuresOf(outcomes),
                            started |-> now,
                            after_failure |-> fetch_log.raised # "none"]
           /\ pollers' = [pollers EXCEPT
                            ![i].pc = IF r.raised = "none" \/ Caught(r.raised)
                                      THEN "test" ELSE "exited"]
    /\ UNCHANGED <<apartvars, thread, trigvars, stopvars, owner>>

NextRestart ==
    \/ LoopTest
    \/ LoopTriggers
    \/ cycles < MaxRestartCycles /\ LoopFetch
    \/ start
    \/ stop
    \/ join
    \/ \E i \in 1..MaxRestarts : i <= Len(pollers) /\ PollerTest(i)
    \/ \E i \in 1..MaxRestarts : i <= Len(pollers) /\ PollerTriggers(i)
    \/ \E i \in 1..MaxRestarts : i <= Len(pollers) /\ PollerFetch(i)

SpecRestart == Init /\ [][NextRestart]_vars

\* the threads that have not left _update_loop
Pollers ==
    (IF thread = "running" THEN 1 ELSE 0)
    + Cardinality({i \in DOMAIN pollers : pollers[i].pc # "exited"})

\* C37: whatever start() and stop() calls the owner makes, also a start()
\* after a stop() whose join timed out during a fetch, at most one thread is
\* inside _update_loop.
C37_AtMostOnePoller == Pollers <= 1

\* the SUPERNOVA, PHOENIX and WARNING events get_animation_events returns
LookedUpEvents ==
    {e \in get_animation_events(Mon) : e.type \in {"supernova", "phoenix", "warning"}}

\* C38: every SUPERNOVA, PHOENIX or WARNING event that get_animation_events
\* returns names a host of the host list of the moment and carries the led
\* index that host has in the list, after any polls and trigger ticks.
C38_EventsNameListedHosts ==
    impl = "aurenet" =>
        \A e \in LookedUpEvents :
            \E i \in 1..Len(get_hosts(Mon)) :
                /\ get_hosts(Mon)[i].name = e.hostname
                /\ get_hosts(Mon)[i].led_index = e.led_index

-----------------------------------------------------------------------------
(* _update_loop with trigger files that appear while it runs.              *)

\* the fetches of the loop with trigger files: answered at once with one
\* host, or failed three times
WatchedOutcomes == FirstTry({<<[name |-> Db, state |-> OK]>>}) \cup {Failures(MaxAttempts)}

NextLoop ==
    \/ Inject
    \/ LoopTest
    \/ LoopTriggers
    \/ LoopFetchOf(WatchedOutcomes)
    \/ Stop

SpecLoop == Init /\ [][NextLoop]_vars

\* the statements of _update_loop the model tells apart
LoopStatements == {"test", "triggers", "fetch", "exited"}

\* the thread has a statement to execute: it has not left the loop, and the
\* model follows the iteration the loop's test would begin
LoopReady ==
    /\ impl = "aurenet"
    /\ thread = "running"
    /\ loop_pc = "test" /\ running => iterations < MaxIterations

\* the thread goes on to another statement
Advances == LoopReady /\ loop_pc' \in LoopStatements \ {loop_pc}

\* the thread is scheduled: while it has a statement to execute it executes
\* one, and a fetch attempt that was begun ends
FairLoop == SpecLoop /\ WF_loop_pc(Advances)

\* the thread has a trigger check before it: it is at one, or at a statement
\* of an iteration that the model lets be followed by another
CheckAhead ==
    /\ impl = "aurenet"
    /\ thread = "running"
    /\ \/ loop_pc = "triggers"
       \/ loop_pc \in {"test", "fetch"} /\ iterations < MaxIterations

\* the trigger check of an iteration ran
Checked == loop_pc = "triggers" /\ loop_pc' # "triggers"

NoChangeInProgress == \A w \in Writers : changing[w] = None

\* C40: when the handlers of all SPEED_CHANGED and BRIGHTNESS_CHANGED events
\* so far have returned and none of them had to clamp, speed and brightness
\* are their initial values plus the deltas of all the events, whichever
\* threads delivered them and in whatever order.
C40_NoUpdateLost ==
    NoChangeInProgress /\ ~delta_sums.clamped =>
        /\ effect_config.speed = 10 + delta_sums.speed
        /\ effect_config.brightness = 10 + delta_sums.brightness

\* four events were handled without clamping, of both types, and both
\* values have moved
C40_Witness ==
    /\ NoChangeInProgress
    /\ changes = MaxChanges
    /\ ~delta_sums.clamped
    /\ delta_sums.speed = -1
    /\ delta_sums.brightness = -6
    /\ effect_config = [speed |-> 9, brightness |-> 4]
====
